---- MODULE Spec2Model ----
(***************************************************************************)
(* Dochameleon: the DOCX Structural Rewriter (converters/pdf.py), the      *)
(* conversion pipeline (pipeline.py, converters/docx.py) and the two front *)
(* ends (cli.py, gui.py), as state machines.                               *)
(*                                                                         *)
(* Text is a sequence of one-character strings, so that strip(), lower(),  *)
(* substring tests and the caption patterns are computed as the code       *)
(* computes them.                                                          *)
(***************************************************************************)
EXTENDS Integers, Sequences, FiniteSets, TLC

VARIABLES
    \* ---- make_docx_native (converters/pdf.py) ----
    disk,       \* the document stored at docx_path
    doc,        \* the python-docx Document held by the running call
    pc,         \* position of the running call: "idle", "open" (before
                \* Document()), "pass" (before pass number `pass`), "save"
                \* (before doc.save), "done" (returned)
    pass,       \* index in PassOrder of the next pass to run
    trace,      \* the steps the running call has completed, in order
    raised,     \* the running call reached its except clause
    calls,      \* number of calls of make_docx_native started so far
    after       \* after[n]: what call n left behind, [doc, saved]

rewriterVars == <<disk, doc, pc, pass, trace, raised, calls, after>>

VARIABLES
    \* ---- the pipeline (pipeline.py) and its adapters ----
    files,      \* the output directory: what each path holds
    installed,  \* the conversion libraries that can be imported
    last,       \* the last call of a single-file pipeline function
    batch       \* the running or last call of a batch pipeline function

pipelineVars == <<files, installed, last, batch>>

VARIABLES
    \* ---- the front ends (main.py, cli.py, gui.py) ----
    entry,            \* what main() launched: "cli" or "gui"
    latex_available,  \* what check_latex_installed() answers
    packages,         \* the libraries check_and_install_packages() found
    cli,              \* the last call of run_single_conversion
    input_file,       \* MainWindow.input_file: its suffix, "none" for None
    combo,            \* conv_combo: [items, index]
    convert_btn,      \* convert_btn.isEnabled()
    progress,         \* the progress bar is shown
    status,           \* status_label: "", "converting", "ok" or "failed"
    action_buttons,   \* the Open File / Show in Folder buttons are shown
    workers,          \* the ConversionWorker threads started and not yet
                      \* handled by on_conversion_finished, oldest first
    shown_error       \* the message of the last show_error, "none" if none

frontVars == <<entry, latex_available, packages, cli, input_file, combo, convert_btn,
               progress, status, action_buttons, workers, shown_error>>

VARIABLES
    \* ---- one table of the document (doc.tables) ----
    tbl_src,    \* the table as the engine wrote it
    tbl,        \* the table in the open document
    tbl_pass    \* number of passes of make_docx_native that have run on it

tablesVars == <<tbl_src, tbl, tbl_pass>>

VARIABLES
    \* ---- the runs of the document: hyperlinks and references ----
    pdf_hyperlinks, \* the records extract_pdf_hyperlinks returned
    run_src,        \* the paragraphs as the engine wrote them
    run_doc,        \* the paragraphs in the open document
    rels,           \* targets of the external hyperlink relationships
    run_pass        \* number of passes of make_docx_native that have run

linksVars == <<pdf_hyperlinks, run_src, run_doc, rels, run_pass>>

VARIABLES
    \* ---- the children of the paragraphs: bookmarks ----
    bm_paras,   \* the body paragraphs after the TOC title, with their children
    bm_calls    \* number of calls of _add_bookmark_to_paragraph made so far

bookmarkVars == <<bm_paras, bm_calls>>

vars == <<disk, doc, pc, pass, trace, raised, calls, after,
          tbl_src, tbl, tbl_pass,
          pdf_hyperlinks, run_src, run_doc, rels, run_pass,
          bm_paras, bm_calls,
          files, installed, last, batch,
          entry, latex_available, packages, cli, input_file, combo, convert_btn,
          progress, status, action_buttons, workers, shown_error>>

\* Each part leaves the variables of the other parts alone.
RewriterFrame ==
    UNCHANGED <<pipelineVars, frontVars, tablesVars, linksVars, bookmarkVars>>
PipelineFrame ==
    UNCHANGED <<rewriterVars, frontVars, tablesVars, linksVars, bookmarkVars>>
FrontFrame ==
    UNCHANGED <<rewriterVars, pipelineVars, tablesVars, linksVars, bookmarkVars>>
TablesFrame ==
    UNCHANGED <<rewriterVars, pipelineVars, frontVars, linksVars, bookmarkVars>>
LinksFrame ==
    UNCHANGED <<rewriterVars, pipelineVars, frontVars, tablesVars, bookmarkVars>>
BookmarkFrame ==
    UNCHANGED <<rewriterVars, pipelineVars, frontVars, tablesVars, linksVars>>

-----------------------------------------------------------------------------
(* Bounds of the model.                                                    *)

\* Longest input document, in paragraphs.
MaxParas == 3
\* Number of consecutive calls of make_docx_native on the same file.
MaxCalls == 2
\* Number of input files find_files can return.
MaxFiles == 2
\* Number of ConversionWorker threads that can exist at a time.
MaxWorkers == 2

-----------------------------------------------------------------------------
(* Text primitives (Python str methods and the re patterns the code uses). *)

UpperAlphabet ==
    <<"A","B","C","D","E","F","G","H","I","J","K","L","M",
      "N","O","P","Q","R","S","T","U","V","W","X","Y","Z">>

LowerAlphabet ==
    <<"a","b","c","d","e","f","g","h","i","j","k","l","m",
      "n","o","p","q","r","s","t","u","v","w","x","y","z">>

Whitespace == {" ", "\t", "\n"}

Digits == {"0","1","2","3","4","5","6","7","8","9"}

LowerChar(c) ==
    IF \E i \in 1..26 : UpperAlphabet[i] = c
    THEN LowerAlphabet[CHOOSE i \in 1..26 : UpperAlphabet[i] = c]
    ELSE c

\* str.lower()
Lower(s) == [i \in 1..Len(s) |-> LowerChar(s[i])]

\* str.strip()
Strip(s) ==
    LET keep == {i \in 1..Len(s) : s[i] \notin Whitespace}
    IN  IF keep = {} THEN <<>>
        ELSE LET lo == CHOOSE i \in keep : \A j \in keep : i <= j
                 hi == CHOOSE i \in keep : \A j \in keep : j <= i
             IN  SubSeq(s, lo, hi)

\* str.startswith(prefix)
StartsWith(s, prefix) ==
    /\ Len(prefix) <= Len(s)
    /\ SubSeq(s, 1, Len(prefix)) = prefix

\* `sub in s`
Contains(s, sub) ==
    \E i \in 0..(Len(s) - Len(sub)) : SubSeq(s, i + 1, i + Len(sub)) = sub

\* After position `from` (0-based count of consumed characters): \s*(\d+)
SpacesThenDigit(s, from) ==
    \E d \in (from + 1)..Len(s) :
        /\ s[d] \in Digits
        /\ \A j \in (from + 1)..(d - 1) : s[j] \in Whitespace

\* re.match(r'^(Figure|Fig\.?)\s*(\d+)', text, re.IGNORECASE)
FigureCaptionMatch(text) ==
    LET t == Lower(text)
    IN  \E p \in {<<"f","i","g","u","r","e">>, <<"f","i","g",".">>, <<"f","i","g">>} :
            StartsWith(t, p) /\ SpacesThenDigit(t, Len(p))

\* re.match(r'^(Table)\s*(\d+)', text, re.IGNORECASE)
TableCaptionMatch(text) ==
    LET t == Lower(text)
    IN  StartsWith(t, <<"t","a","b","l","e">>) /\ SpacesThenDigit(t, 5)

RECURSIVE Concat(_)
Concat(seqs) ==
    IF seqs = <<>> THEN <<>> ELSE Head(seqs) \o Concat(Tail(seqs))

-----------------------------------------------------------------------------
(* The document: sections, paragraphs, runs.                               *)

\* A run is [kind, text, bold, size]: kind "t" is a run holding a w:t text
\* element, the other kinds are the field runs _add_toc_field creates.
\* size is the font size in points, 0 when run.font.size is None; bold is
\* TRUE only when run.bold is True (None and False are both falsy).
TextRun(text, bold, size) == [kind |-> "t", text |-> text, bold |-> bold, size |-> size]

FieldRun(kind, text) == [kind |-> kind, text |-> text, bold |-> FALSE, size |-> 0]

\* run.text: the w:t content; w:fldChar and w:instrText contribute nothing.
RunText(r) == IF r.kind = "t" THEN r.text ELSE <<>>

\* paragraph.text
ParaText(p) == Concat([i \in 1..Len(p.runs) |-> RunText(p.runs[i])])

\* paragraph_format.space_before / space_after when the paragraph carries no
\* w:spacing value of its own (None).
Unset == -1

\* A paragraph is [style, runs, bookmarks, border, shading, frame,
\* spaceBefore, spaceAfter]: style is paragraph.style.name; bookmarks are the
\* names of the w:bookmarkStart children, first child first; border, shading
\* and frame tell whether w:pPr holds a w:pBdr / w:shd / w:framePr child; the
\* spacings are in points.
Para(style, runs, boxed) ==
    [style |-> style, runs |-> runs, bookmarks |-> <<>>,
     border |-> boxed, shading |-> boxed, frame |-> boxed,
     spaceBefore |-> Unset, spaceAfter |-> Unset]

StyleNormal   == <<"N","o","r","m","a","l">>
StyleHeading1 == <<"H","e","a","d","i","n","g"," ","1">>
StyleHeading2 == <<"H","e","a","d","i","n","g"," ","2">>
StyleTitle    == <<"T","i","t","l","e">>

\* Inches(1) and Inches(0.5), in half inches.
OneInch == 2
HalfInch == 1

StandardMargins ==
    [top |-> OneInch, bottom |-> OneInch, left |-> OneInch, right |-> OneInch,
     header |-> HalfInch, footer |-> HalfInch]

\* The margins pdf2docx writes with page_margin_factor 0.0 are those of the
\* PDF page, here narrower than one inch.
SourceMargins ==
    [top |-> 1, bottom |-> 1, left |-> 1, right |-> 1, header |-> 0, footer |-> 0]


\* A document is [sections, paras]: the page margins of each section and the
\* body paragraphs (doc.paragraphs), in document order.
Document(paras) == [sections |-> <<SourceMargins>>, paras |-> paras]

-----------------------------------------------------------------------------
(* Pass 1: set_page_margins.                                               *)

set_page_margins(d) ==
    [d EXCEPT !.sections = [i \in 1..Len(d.sections) |-> StandardMargins]]

-----------------------------------------------------------------------------
(* Pass 2: remove_wrapper_tables. It visits doc.tables only and changes    *)
(* table and cell properties; the documents here have a table-free body.   *)

remove_wrapper_tables(d) == d

-----------------------------------------------------------------------------
(* Pass 3: remove_all_paragraph_borders.                                   *)

\* The paragraph-level part: w:pBdr and w:shd are removed from w:pPr.
remove_paragraph_borders(p) ==
    [p EXCEPT !.border = FALSE, !.shading = FALSE, !.frame = FALSE]

remove_all_paragraph_borders(d) ==
    [d EXCEPT !.paras = [i \in 1..Len(d.paras) |-> remove_paragraph_borders(d.paras[i])]]

-----------------------------------------------------------------------------
(* Pass 4: clean_headings.                                                 *)

SubHeading == <<"H","e","a","d","i","n","g">>
SubTitle   == <<"T","i","t","l","e">>

\* len(text) < 100 in clean_headings
CleanHeadingTextLimit == 100
\* Pt(12), Pt(6): the spacing clean_headings forces
HeadingSpaceBefore == 12
HeadingSpaceAfter == 6

\* is_heading of clean_headings
IsHeadingForCleaning(p) ==
    \/ Contains(p.style, SubHeading)
    \/ Contains(p.style, SubTitle)
    \/ LET text == Strip(ParaText(p))
       IN  /\ Len(text) < CleanHeadingTextLimit
           /\ Len(text) > 0
           /\ \E i \in 1..Len(p.runs) : p.runs[i].bold /\ p.runs[i].size >= 12

clean_headings(d) ==
    [d EXCEPT !.paras = [i \in 1..Len(d.paras) |->
        IF IsHeadingForCleaning(d.paras[i])
        THEN [d.paras[i] EXCEPT !.border = FALSE, !.shading = FALSE,
                                !.spaceBefore = HeadingSpaceBefore,
                                !.spaceAfter = HeadingSpaceAfter]
        ELSE d.paras[i]]]

-----------------------------------------------------------------------------
(* Pass 5: rebuild_hyperlinks. The documents here hold no w:hyperlink, no  *)
(* URL or e-mail text and come with no PDF link record, so that no run is  *)
(* restyled or wrapped.                                                    *)

rebuild_hyperlinks(d) == d

-----------------------------------------------------------------------------
(* Pass 6: rebuild_toc.                                                    *)

\* len(text) < 80 in _collect_headings
CollectHeadingTextLimit == 80

\* The level _collect_headings derives from the first bold run; 0 is None.
LevelByFormatting(p) ==
    LET bold == {i \in 1..Len(p.runs) : p.runs[i].bold}
    IN  IF bold = {} THEN 0
        ELSE LET first == CHOOSE i \in bold : \A j \in bold : i <= j
                 size == p.runs[first].size
             IN  IF size >= 16 THEN 1
                 ELSE IF size >= 14 THEN 2
                 ELSE IF size >= 12 THEN 3
                 ELSE 0

\* The level _collect_headings gives a paragraph; 0 when it collects nothing.
HeadingLevel(p) ==
    LET text == Strip(ParaText(p))
    IN  IF text = <<>> THEN 0
        ELSE IF Contains(p.style, StyleHeading1) \/ p.style = StyleTitle THEN 1
        ELSE IF Contains(p.style, StyleHeading2) THEN 2
        ELSE IF Contains(p.style, <<"H","e","a","d","i","n","g"," ","3">>) THEN 3
        ELSE IF Contains(p.style, <<"H","e","a","d","i","n","g"," ","4">>) THEN 4
        ELSE IF Contains(p.style, SubHeading) THEN 5
        ELSE IF Len(text) < CollectHeadingTextLimit THEN LevelByFormatting(p)
        ELSE 0

\* _collect_headings: the (1-based) positions of the collected paragraphs.
\* The bookmark of the heading at position k is _Toc{k-1}.
CollectHeadings(d) == {k \in 1..Len(d.paras) : HeadingLevel(d.paras[k]) # 0}

TocBookmark(k) == <<"_Toc", k - 1>>
FigBookmark(k) == <<"_FigRef", k - 1>>
\* A table caption bookmark named with the prefix of the heading bookmarks.
TblBookmarkTocPrefix(k) == <<"_Toc", k - 1>>
TblBookmark(k) == <<"_TblRef", k - 1>>

TocTitles ==
    { <<"c","o","n","t","e","n","t","s">>,
      <<"t","a","b","l","e"," ","o","f"," ","c","o","n","t","e","n","t","s">>,
      <<"t","o","c">> }

\* text = para.text.strip().lower(); text in ('contents', 'table of contents', 'toc')
IsTocTitle(p) == Lower(Strip(ParaText(p))) \in TocTitles

TocInstruction ==
    <<" ","T","O","C"," ","\\","o"," ","\"","1","-","3","\""," ","\\","h"," ","\\","z"," ","\\","u"," ">>

TocPlaceholder ==
    <<"R","i","g","h","t","-","c","l","i","c","k"," ","a","n","d"," ","s","e","l","e","c","t"," ",
      "\"","U","p","d","a","t","e"," ","F","i","e","l","d","\""," ","t","o"," ",
      "g","e","n","e","r","a","t","e"," ","t","a","b","l","e"," ","o","f"," ",
      "c","o","n","t","e","n","t","s">>

\* toc_field_p: a bare w:p (no w:pPr, so the default paragraph style) holding
\* the five runs begin, instruction, separate, placeholder, end.
TocFieldParagraph ==
    Para(StyleNormal,
         << FieldRun("begin", <<>>), FieldRun("instr", TocInstruction),
            FieldRun("separate", <<>>), TextRun(TocPlaceholder, FALSE, 0),
            FieldRun("end", <<>>) >>,
         FALSE)

\* _add_bookmark_to_paragraph: p.insert(0, bookmark_start)
AddBookmark(p, name) == [p EXCEPT !.bookmarks = <<name>> \o @]

InsertAt(seq, k, x) == SubSeq(seq, 1, k) \o <<x>> \o SubSeq(seq, k + 1, Len(seq))

\* _add_toc_field(doc, doc.paragraphs[title], headings): a bookmark on every
\* collected heading, then the field paragraph inserted after the title.
\* A TOC field written in the place of the title paragraph.
AddTocFieldOverTitle(d, title, headings) ==
    LET marked == [k \in 1..Len(d.paras) |->
                     IF k \in headings THEN AddBookmark(d.paras[k], TocBookmark(k))
                     ELSE d.paras[k]]
    IN  [d EXCEPT !.paras = [marked EXCEPT ![title] = TocFieldParagraph]]
AddTocField(d, title, headings) ==
    LET marked == [k \in 1..Len(d.paras) |->
                     IF k \in headings THEN AddBookmark(d.paras[k], TocBookmark(k))
                     ELSE d.paras[k]]
    IN  [d EXCEPT !.paras = InsertAt(marked, title, TocFieldParagraph)]

rebuild_toc(d) ==
    LET headings == CollectHeadings(d)
        titles == {k \in 1..Len(d.paras) : IsTocTitle(d.paras[k])}
    IN  IF headings = {} \/ titles = {} THEN d
        ELSE AddTocField(d, CHOOSE k \in titles : \A j \in titles : k <= j, headings)

-----------------------------------------------------------------------------
(* Pass 7: rebuild_list_of_figures_tables (_create_list_field emits        *)
(* nothing, so the pass only bookmarks the captions).                      *)

rebuild_list_of_figures_tables(d) ==
    [d EXCEPT !.paras = [k \in 1..Len(d.paras) |->
        LET text == Strip(ParaText(d.paras[k]))
        IN  IF FigureCaptionMatch(text) THEN AddBookmark(d.paras[k], FigBookmark(k))
            ELSE IF TableCaptionMatch(text) THEN AddBookmark(d.paras[k], TblBookmark(k))
            ELSE d.paras[k]]]

-----------------------------------------------------------------------------
(* Pass 8: fix_cross_references. It only sets run.font.color, which the    *)
(* runs here do not record.                                                *)

fix_cross_references(d) == d

-----------------------------------------------------------------------------
(* Pass 9: apply_native_styles (the paragraph part: space_after).          *)

\* Pt(8)
BodySpaceAfter == 8

apply_native_styles(d) ==
    [d EXCEPT !.paras = [k \in 1..Len(d.paras) |->
        IF d.paras[k].spaceAfter = Unset
        THEN [d.paras[k] EXCEPT !.spaceAfter = BodySpaceAfter]
        ELSE d.paras[k]]]

-----------------------------------------------------------------------------
(* make_docx_native: Document(path), the nine passes, doc.save(path), all  *)
(* inside one try whose except clause prints a note and returns.           *)

\* The order with hyperlink and TOC reconstruction exchanged.
PassOrderTocFirst ==
    << "set_page_margins", "remove_wrapper_tables", "remove_all_paragraph_borders",
       "clean_headings", "rebuild_toc", "rebuild_hyperlinks",
       "rebuild_list_of_figures_tables", "fix_cross_references",
       "apply_native_styles" >>

PassOrder ==
    << "set_page_margins", "remove_wrapper_tables", "remove_all_paragraph_borders",
       "clean_headings", "rebuild_hyperlinks", "rebuild_toc",
       "rebuild_list_of_figures_tables", "fix_cross_references",
       "apply_native_styles" >>

\* The value of `doc` while no Document is open.
NoDocument == [sections |-> <<>>, paras |-> <<>>]

\* The paragraphs a converted document is made of here: a TOC title that is
\* also a heading by formatting, a boxed styled heading, a figure caption
\* in two bold runs of which only the second has a size, a
\* boxed body paragraph that reads as a note, a padded upper-case TOC title,
\* and a bold table caption.
ParagraphPalette ==
    { Para(StyleNormal, <<TextRun(<<"C","o","n","t","e","n","t","s">>, TRUE, 14)>>, FALSE),
      Para(StyleHeading1, <<TextRun(<<"I","n","t","r","o">>, FALSE, 0)>>, TRUE),
      Para(StyleNormal, <<TextRun(<<"F","i","g","u","r","e"," ">>, TRUE, 0),
                          TextRun(<<"1">>, TRUE, 12)>>, FALSE),
      Para(StyleNormal, <<TextRun(<<"N","o","t","e",":"," ">>, FALSE, 11),
                          TextRun(<<"F","i","g","."," ","1">>, FALSE, 11)>>, TRUE),
      Para(StyleNormal, <<TextRun(<<" ","T","O","C"," ">>, FALSE, 0)>>, FALSE),
      Para(StyleNormal, <<TextRun(<<"T","a","b","l","e"," ","2">>, TRUE, 12)>>, FALSE) }

InputDocuments ==
    UNION { { Document(ps) : ps \in [1..n -> ParagraphPalette] } : n \in 0..MaxParas }

\* The except clause: print the note, return.
Except ==
    /\ raised' = TRUE
    /\ pc' = "done"
    /\ after' = Append(after, [doc |-> disk, saved |-> FALSE])
    /\ UNCHANGED <<disk, doc, pass, trace, calls>>

\* make_docx_native(docx_path) is called on the stored document.
Call ==
    /\ RewriterFrame
    /\ pc \in {"idle", "done"}
    /\ calls < MaxCalls
    /\ calls' = calls + 1
    /\ pc' = "open"
    /\ pass' = 1
    /\ trace' = <<>>
    /\ raised' = FALSE
    /\ doc' = NoDocument
    /\ UNCHANGED <<disk, after>>

\* doc = Document(str(docx_path))
Open ==
    /\ RewriterFrame
    /\ pc = "open"
    /\ \/ /\ doc' = disk
          /\ trace' = Append(trace, "open")
          /\ pc' = "pass"
          /\ UNCHANGED <<disk, pass, raised, calls, after>>
       \/ Except

\* One pass: it returns, having mutated doc into `result`, or it raises.
PassStep(name, result) ==
    /\ RewriterFrame
    /\ pc = "pass"
    /\ PassOrder[pass] = name
    /\ \/ /\ doc' = result
          /\ trace' = Append(trace, name)
          /\ pass' = pass + 1
          /\ pc' = IF pass = Len(PassOrder) THEN "save" ELSE "pass"
          /\ UNCHANGED <<disk, raised, calls, after>>
       \/ Except

SetPageMargins == PassStep("set_page_margins", set_page_margins(doc))

RemoveWrapperTables == PassStep("remove_wrapper_tables", remove_wrapper_tables(doc))

RemoveAllParagraphBorders ==
    PassStep("remove_all_paragraph_borders", remove_all_paragraph_borders(doc))

CleanHeadings == PassStep("clean_headings", clean_headings(doc))

RebuildHyperlinks == PassStep("rebuild_hyperlinks", rebuild_hyperlinks(doc))

RebuildToc == PassStep("rebuild_toc", rebuild_toc(doc))

RebuildListOfFiguresTables ==
    PassStep("rebuild_list_of_figures_tables", rebuild_list_of_figures_tables(doc))

FixCrossReferences == PassStep("fix_cross_references", fix_cross_references(doc))

ApplyNativeStyles == PassStep("apply_native_styles", apply_native_styles(doc))

\* doc.save(str(docx_path))
Save ==
    /\ RewriterFrame
    /\ pc = "save"
    /\ \/ /\ disk' = doc
          /\ trace' = Append(trace, "save")
          /\ pc' = "done"
          /\ after' = Append(after, [doc |-> doc, saved |-> TRUE])
          /\ UNCHANGED <<doc, pass, raised, calls>>
       \/ Except

RewriterInit ==
    /\ disk \in InputDocuments
    /\ doc = NoDocument
    /\ pc = "idle"
    /\ pass = 1
    /\ trace = <<>>
    /\ raised = FALSE
    /\ calls = 0
    /\ after = <<>>

RewriterNext ==
    \/ Call
    \/ Open
    \/ SetPageMargins
    \/ RemoveWrapperTables
    \/ RemoveAllParagraphBorders
    \/ CleanHeadings
    \/ RebuildHyperlinks
    \/ RebuildToc
    \/ RebuildListOfFiguresTables
    \/ FixCrossReferences
    \/ ApplyNativeStyles
    \/ Save

RewriterIdle ==
    /\ disk = NoDocument
    /\ doc = NoDocument
    /\ pc = "idle"
    /\ pass = 1
    /\ trace = <<>>
    /\ raised = FALSE
    /\ calls = 0
    /\ after = <<>>

-----------------------------------------------------------------------------
(* Properties of make_docx_native.                                         *)

IsPrefix(a, b) == Len(a) <= Len(b) /\ a = SubSeq(b, 1, Len(a))

\* Paragraphs holding a TOC field instruction run.
TocFieldParagraphs(d) ==
    {k \in 1..Len(d.paras) :
        \E i \in 1..Len(d.paras[k].runs) :
            /\ d.paras[k].runs[i].kind = "instr"
            /\ d.paras[k].runs[i].text = TocInstruction}

\* Every bookmark of the document, in document order.
AllBookmarks(d) == Concat([k \in 1..Len(d.paras) |-> d.paras[k].bookmarks])

HasTocTitle(d) == \E k \in 1..Len(d.paras) : IsTocTitle(d.paras[k])

HasHeadingOrCaption(d) ==
    \E k \in 1..Len(d.paras) :
        \/ HeadingLevel(d.paras[k]) # 0
        \/ FigureCaptionMatch(Strip(ParaText(d.paras[k])))
        \/ TableCaptionMatch(Strip(ParaText(d.paras[k])))

\* C1: running the rewriter twice on a document with a TOC title and headings
\* or captions leaves as many TOC field paragraphs and the same bookmarks as
\* running it once.
C1_RewriteIdempotent ==
    ( /\ Len(after) >= 2
      /\ after[1].saved
      /\ after[2].saved
      /\ HasTocTitle(after[1].doc)
      /\ HasHeadingOrCaption(after[1].doc) )
    => /\ Cardinality(TocFieldParagraphs(after[2].doc))
            = Cardinality(TocFieldParagraphs(after[1].doc))
       /\ AllBookmarks(after[2].doc) = AllBookmarks(after[1].doc)

\* C2: when a pass raises, the document as mutated by the passes before it is
\* the document stored at the DOCX path when the call returns.
C2_SavedAfterFailedPass ==
    ( /\ pc = "done"
      /\ raised
      /\ Len(trace) \in 1..Len(PassOrder) )
    => disk = doc

\* C5: the call opens the document, then runs the nine passes in the fixed
\* order, then saves: what it has done so far is always an initial part of
\* that sequence with nothing repeated, and a call that returns without an
\* exception has done all of it, the save last.
C5_PassesInOrder ==
    LET steps == << "open", "set_page_margins", "remove_wrapper_tables",
                    "remove_all_paragraph_borders", "clean_headings",
                    "rebuild_hyperlinks", "rebuild_toc",
                    "rebuild_list_of_figures_tables", "fix_cross_references",
                    "apply_native_styles", "save" >>
    IN  /\ IsPrefix(trace, steps)
        /\ (pc = "done" /\ ~raised) => trace = steps
        /\ (pc = "save") => trace = SubSeq(steps, 1, 10)

C5_Witness ==
    /\ pc = "done"
    /\ ~raised
    /\ Len(trace) = 11
    /\ trace[7] = "rebuild_toc"
    /\ trace[11] = "save"
    /\ TocFieldParagraphs(disk) # {}

\* C17: in the first call on a document with a paragraph whose stripped
\* lower-case text is contents, table of contents or toc, once rebuild_toc
\* has run the document has one paragraph more, exactly one TOC field
\* paragraph, and it is the paragraph right after the first such title: a
\* field begin, the instruction, a separator, placeholder text, a field end.
C17_TocFieldInserted ==
    ( /\ calls = 1
      /\ pc \in {"pass", "save"}
      /\ pass > 6
      /\ HasTocTitle(disk) )
    => LET titles == {k \in 1..Len(disk.paras) : IsTocTitle(disk.paras[k])}
           first == CHOOSE k \in titles : \A j \in titles : k <= j
       IN  /\ Len(doc.paras) = Len(disk.paras) + 1
           /\ TocFieldParagraphs(doc) = {first + 1}
           /\ doc.paras[first].runs = disk.paras[first].runs
           /\ LET runs == doc.paras[first + 1].runs
              IN  /\ [i \in 1..Len(runs) |-> runs[i].kind]
                        = <<"begin", "instr", "separate", "t", "end">>
                  /\ runs[2].text
                        = <<" ","T","O","C"," ","\\","o"," ","\"","1","-","3","\"",
                            " ","\\","h"," ","\\","z"," ","\\","u"," ">>

-----------------------------------------------------------------------------
(* Tables (doc.tables). A table is [nrows, row, tblPr, borders, shd]: it   *)
(* has nrows rows, each holding the cells of `row`; tblPr tells whether    *)
(* w:tbl has a w:tblPr child, borders is its w:tblBorders and shd tells    *)
(* whether it has a w:shd child. A cell is [text, tcPr, borders, fill,     *)
(* para, inner]: tcPr tells whether w:tc has a w:tcPr child, borders is    *)
(* its w:tcBorders, fill the w:fill of its w:shd (empty when it has no     *)
(* w:shd), para the formatting of the cell's paragraph and inner the       *)
(* paragraphs of the tables nested in the cell.                            *)

\* Largest number of rows and of columns of an input table.
MaxRows == 3
MaxCols == 3

TablePositions == {"top", "left", "bottom", "right", "insideH", "insideV"}
CellPositions == {"top", "left", "bottom", "right"}

\* One border element: w:val, w:sz, w:color. AbsentBorder stands for a
\* position that has no element.
Border(val, sz, color) == [val |-> val, sz |-> sz, color |-> color]
AbsentBorder == Border("absent", 0, "")
NilBorder == Border("nil", 0, "")

NoBorders(positions) == [p \in positions |-> AbsentBorder]

UpperChar(c) ==
    IF \E i \in 1..26 : LowerAlphabet[i] = c
    THEN UpperAlphabet[CHOOSE i \in 1..26 : LowerAlphabet[i] = c]
    ELSE c

\* str.upper()
Upper(s) == [i \in 1..Len(s) |-> UpperChar(s[i])]

Repeat(c, n) == [i \in 1..n |-> c]

\* remove_table_borders(table)
remove_table_borders(t) ==
    IF t.tblPr
    THEN [t EXCEPT !.borders = [p \in TablePositions |-> NilBorder]]
    ELSE t

\* remove_cell_formatting(cell)
remove_cell_formatting(c) ==
    LET cleaned == IF c.tcPr
                   THEN [c EXCEPT !.borders = [p \in CellPositions |-> NilBorder],
                                  !.fill = <<>>]
                   ELSE c
    IN  [cleaned EXCEPT !.para = remove_paragraph_borders(@)]

\* The fills apply_clean_table_style removes from the cells of a data table.
CleanTableFills ==
    {<<"F","5","F","5","F","5">>,
     <<"F","0","F","0","F","0">>,
     <<"E","F","E","F","E","F">>,
     <<"F","A","F","A","F","A">>,
     <<"E","0","E","0","E","0">>,
     <<"F","8","F","8","F","8">>,
     <<"F","F","F","F","F","F">>}

CleanBorderSize == 4

CleanBorders == [p \in TablePositions |-> Border("single", CleanBorderSize, "BFBFBF")]

\* Cells whose artifact fill is removed.
CleanCellFills(row) ==
    [i \in 1..Len(row) |->
        IF row[i].tcPr /\ row[i].fill # <<>> /\ Upper(row[i].fill) \in CleanTableFills
        THEN [row[i] EXCEPT !.fill = <<>>]
        ELSE row[i]]

\* apply_clean_table_style that adds the six borders without first removing
\* the w:tblBorders the table has: the old element stays the one in effect.
ApplyCleanTableStyleKeepsBorders(t) ==
    [t EXCEPT !.tblPr = TRUE,
              !.borders = IF t.borders = NoBorders(TablePositions)
                          THEN CleanBorders ELSE t.borders,
              !.row = CleanCellFills(t.row)]

\* apply_clean_table_style(table)
apply_clean_table_style(t) ==
    [t EXCEPT !.tblPr = TRUE,
              !.borders = CleanBorders,
              !.row = CleanCellFills(t.row)]

WrapperMaxCols == 2
WrapperTextLimit == 200

\* len(table.rows), and cols = len(table.columns) if table.rows else 0
TableRows(t) == t.nrows
TableCols(t) == IF t.nrows # 0 THEN Len(t.row) ELSE 0

\* cell_text: cell.text.strip() of every cell of every row, concatenated.
CellText(t) ==
    Concat([k \in 1..(t.nrows * Len(t.row)) |->
               Strip(t.row[((k - 1) % Len(t.row)) + 1].text)])

\* The classification without the text-length rule.
IsWrapperByShapeOnly(t) == TableRows(t) = 1 /\ TableCols(t) <= WrapperMaxCols

\* is_wrapper of remove_wrapper_tables
IsWrapper(t) ==
    LET rows == TableRows(t)
        cols == TableCols(t)
    IN  IF rows = 1 /\ cols = 1 THEN TRUE
        ELSE IF rows = 1 /\ cols <= WrapperMaxCols THEN TRUE
        ELSE IF rows <= 2 THEN Len(CellText(t)) < WrapperTextLimit /\ rows = 1
        ELSE FALSE

\* The body of the loop of remove_wrapper_tables for one table.
RemoveWrapperTablesOnTable(t) ==
    IF IsWrapper(t)
    THEN [remove_table_borders(t) EXCEPT
              !.row = [i \in 1..Len(t.row) |-> remove_cell_formatting(t.row[i])]]
    ELSE apply_clean_table_style(t)

\* The part of remove_all_paragraph_borders that visits the table cells.
RemoveParagraphBordersInTable(t) ==
    [t EXCEPT !.row = [i \in 1..Len(t.row) |->
                          [t.row[i] EXCEPT !.para = remove_paragraph_borders(@)]]]

\* What a pass of make_docx_native does to a table of the document.
PassOnTable(name, t) ==
    CASE name = "remove_wrapper_tables" -> RemoveWrapperTablesOnTable(t)
      [] name = "remove_all_paragraph_borders" -> RemoveParagraphBordersInTable(t)
      [] OTHER -> t

\* Input cells: a short boxed cell with an artifact fill whose paragraph is
\* a boxed heading with padded text, a longer cell with a colour fill and no
\* borders that holds a nested table with a boxed paragraph, an empty cell
\* without w:tcPr. The text of a cell's paragraph is kept in the cell's text
\* field; inner are the paragraphs of the tables nested in the cell, which
\* neither doc.tables nor cell.paragraphs reaches.
InputBorder == Border("single", 12, "000000")

CellPalette ==
    { [text |-> <<" ">> \o Repeat("x", 66) \o <<" ">>, tcPr |-> TRUE,
       borders |-> [p \in CellPositions |-> InputBorder],
       fill |-> <<"f","5","f","5","f","5">>,
       para |-> Para(StyleHeading1, <<>>, TRUE), inner |-> <<>>],
      [text |-> Repeat("y", 67), tcPr |-> TRUE,
       borders |-> NoBorders(CellPositions),
       fill |-> <<"F","F","F","F","0","0">>,
       para |-> Para(StyleNormal, <<>>, FALSE),
       inner |-> <<Para(StyleNormal, <<>>, TRUE)>>],
      [text |-> <<>>, tcPr |-> FALSE,
       borders |-> NoBorders(CellPositions),
       fill |-> <<>>,
       para |-> Para(StyleNormal, <<>>, FALSE), inner |-> <<>>] }

InputRows ==
    UNION {[1..n -> CellPalette] : n \in 1..MaxCols}

\* Table-level properties: a w:tblPr (the schema requires one) with or
\* without borders (here on two positions only) and shading.
InputTableBorders ==
    [p \in TablePositions |-> IF p \in {"top", "bottom"} THEN InputBorder ELSE AbsentBorder]

InputTables ==
    { t \in [nrows : 0..MaxRows, row : InputRows \cup {<<>>}, tblPr : {TRUE},
             borders : {NoBorders(TablePositions), InputTableBorders}, shd : BOOLEAN] :
        (t.nrows = 0) <=> (t.row = <<>>) }

\* One table of the document through the passes of make_docx_native.
TablePass ==
    /\ TablesFrame
    /\ tbl_pass < Len(PassOrder)
    /\ tbl' = PassOnTable(PassOrder[tbl_pass + 1], tbl)
    /\ tbl_pass' = tbl_pass + 1
    /\ UNCHANGED tbl_src

TablesInit ==
    /\ tbl_src \in InputTables
    /\ tbl = tbl_src
    /\ tbl_pass = 0

NoTable ==
    [nrows |-> 0, row |-> <<>>, tblPr |-> FALSE,
     borders |-> NoBorders(TablePositions), shd |-> FALSE]

TablesIdle ==
    /\ tbl_src = NoTable
    /\ tbl = NoTable
    /\ tbl_pass = 0

TablesNext == TablePass

-----------------------------------------------------------------------------
(* Properties of the table passes.                                         *)

\* remove_wrapper_tables has run on the table.
TableProcessed == tbl_pass >= 2

\* C12: once remove_wrapper_tables has run, a wrapper table has all six
\* table borders and all four borders of every cell set to nil, and neither
\* the table nor any cell has shading.
C12_WrapperStripped ==
    (TableProcessed /\ IsWrapper(tbl_src))
    => /\ \A p \in TablePositions : tbl.borders[p].val = "nil"
       /\ ~tbl.shd
       /\ \A i \in 1..Len(tbl.row) :
             /\ \A p \in CellPositions : tbl.row[i].borders[p].val = "nil"
             /\ tbl.row[i].fill = <<>>

\* C13: once remove_wrapper_tables has run, and after every later pass, a
\* data table has a single border of size 4 and colour BFBFBF on each of
\* its six positions, whatever borders it came with.
C13_DataTableBorders ==
    (TableProcessed /\ ~IsWrapper(tbl_src))
    => \A p \in TablePositions :
          tbl.borders[p] = [val |-> "single", sz |-> 4, color |-> "BFBFBF"]

C13_Witness ==
    /\ tbl_pass = Len(PassOrder)
    /\ tbl_src.nrows = 2
    /\ tbl_src.borders = InputTableBorders
    /\ \A p \in TablePositions :
          tbl.borders[p] = [val |-> "single", sz |-> 4, color |-> "BFBFBF"]

HeadingStyled(p) == Contains(p.style, SubHeading) \/ Contains(p.style, SubTitle)

HeadingNormalized(p) ==
    /\ p.spaceBefore = 12
    /\ p.spaceAfter = 6
    /\ ~p.border
    /\ ~p.shading

\* C15: from the end of clean_headings on, through every later pass and in
\* the saved document, every paragraph with a Heading or Title style, in
\* the body or in a table cell, has 12 pt before, 6 pt after, no border and
\* no shading.
C15_HeadingsNormalized ==
    /\ (pc \in {"pass", "save"} /\ pass > 4)
       => \A k \in 1..Len(doc.paras) :
             HeadingStyled(doc.paras[k]) => HeadingNormalized(doc.paras[k])
    /\ (pc = "done" /\ ~raised)
       => \A k \in 1..Len(disk.paras) :
             HeadingStyled(disk.paras[k]) => HeadingNormalized(disk.paras[k])
    /\ (tbl_pass >= 4)
       => \A i \in 1..Len(tbl.row) :
             HeadingStyled(tbl.row[i].para) => HeadingNormalized(tbl.row[i].para)

\* What tells the blocks of a document apart: style and text.
BlockKeys(paras) ==
    [k \in 1..Len(paras) |-> [style |-> paras[k].style, text |-> ParaText(paras[k])]]

C24_OneHeadingView ==
    pc = "pass"
    => \A k \in 1..Len(doc.paras) :
          LET p == doc.paras[k]
          IN  Strip(ParaText(p)) # <<>>
              => /\ IsHeadingForCleaning(p) <=> HeadingLevel(p) # 0
                 /\ HeadingLevel(p) \in 0..5

\* The markers by which the specification recognises an intentional box.
BoxMarkers ==
    {<<"n","o","t","e",":">>,
     <<"w","a","r","n","i","n","g",":">>,
     <<"c","a","u","t","i","o","n",":">>,
     <<"i","m","p","o","r","t","a","n","t",":">>,
     <<"t","i","p",":">>}

IsIntentionalBox(p) ==
    /\ p.border \/ p.shading
    /\ \E m \in BoxMarkers : Contains(Lower(ParaText(p)), m)

\* C23: a bordered or shaded paragraph whose text contains one of the
\* markers has, after the strip pass, the paragraph border and shading it
\* had in the document the call opened.
C23_IntentionalBoxKept ==
    (pc = "pass" /\ pass = 4)
    => \A k \in 1..Len(disk.paras) :
          IsIntentionalBox(disk.paras[k])
          => /\ doc.paras[k].border = disk.paras[k].border
             /\ doc.paras[k].shading = disk.paras[k].shading

Unboxed(p) == ~p.border /\ ~p.shading /\ ~p.frame

\* C21: from the end of remove_all_paragraph_borders on, no paragraph has a
\* paragraph border, paragraph shading or frame property: not in the body,
\* not in a table cell, not in a table nested in a cell.
C21_NoParagraphBoxes ==
    /\ (pc \in {"pass", "save"} /\ pass > 3)
       => \A k \in 1..Len(doc.paras) : Unboxed(doc.paras[k])
    /\ (tbl_pass >= 3)
       => \A i \in 1..Len(tbl.row) :
             /\ Unboxed(tbl.row[i].para)
             /\ \A n \in 1..Len(tbl.row[i].inner) : Unboxed(tbl.row[i].inner[n])

-----------------------------------------------------------------------------
(* Hyperlinks and cross-references: the runs of the document. A paragraph  *)
(* is [inTable, kids]: inTable tells whether it is a paragraph of a table  *)
(* cell (reached through doc.tables) or of the body (doc.paragraphs); kids *)
(* are the w:r and w:hyperlink children of the w:p, in order. A child is   *)
(* [tag, text, first, color, underline, font, fill, target, url]: text is  *)
(* run.text, of which the first `first` characters are those of the first  *)
(* w:t element of the run; color is the w:color value ("" when the run has *)
(* none), font is run.font.name and fill the w:fill of the run's w:shd     *)
(* (both empty when absent); target is the target of a hyperlink's         *)
(* relationship and url the string _add_hyperlink_to_run was given for it. *)
(* The paragraphs here come without w:hyperlink children.                  *)

\* Longest run document, in paragraphs, and longest list of link records.
MaxRunParas == 2
MaxLinks == 2

Run(text, color) ==
    [tag |-> "r", text |-> text, first |-> Len(text), color |-> color,
     underline |-> FALSE, font |-> <<>>, fill |-> <<>>,
     target |-> <<>>, url |-> <<>>]

\* RGBColor(0, 0, 238)
LinkBlue == "0000EE"

Letters == {UpperAlphabet[i] : i \in 1..26} \cup {LowerAlphabet[i] : i \in 1..26}

\* The characters the URL alternatives of url_pattern stop at: white space
\* and < > " { } | \ ^ [ ] (and the grave accent, which no text here holds
\* and a TLA+ string cannot hold).
UrlStop == Whitespace \cup {"<", ">", "\"", "{", "}", "|", "\\", "^", "[", "]"}
\* [a-zA-Z0-9._%+-]
EmailLocalChars == Letters \cup Digits \cup {".", "_", "%", "+", "-"}
\* [a-zA-Z0-9.-]
EmailDomainChars == Letters \cup Digits \cup {".", "-"}

\* The last position e such that s[i..e] lies in class (i - 1 when s[i]
\* does not): a greedy X+ or X* from position i.
GreedyEnd(s, i, class) ==
    LET ends == {e \in (i - 1)..Len(s) : \A j \in i..e : s[j] \in class}
    IN  CHOOSE e \in ends : \A f \in ends : f <= e

\* The same for a negated class [^...].
GreedyEndNot(s, i, stop) ==
    LET ends == {e \in (i - 1)..Len(s) : \A j \in i..e : s[j] \notin stop}
    IN  CHOOSE e \in ends : \A f \in ends : f <= e

\* s holds lit from position i on.
LiteralAt(s, i, lit) ==
    /\ i + Len(lit) - 1 <= Len(s)
    /\ SubSeq(s, i, i + Len(lit) - 1) = lit

\* End of a match of prefix followed by one or more characters not in
\* UrlStop, at position i; 0 if none.
PrefixedUrlEnd(s, i, prefix) ==
    IF LiteralAt(s, i, prefix)
    THEN LET e == GreedyEndNot(s, i + Len(prefix), UrlStop)
         IN  IF e >= i + Len(prefix) THEN e ELSE 0
    ELSE 0

\* End of a match of  [a-zA-Z0-9._%+-]+@[a-zA-Z0-9.-]+\.[a-zA-Z]{2,}  at
\* position i, 0 if none: the local part is greedy and must be followed by
\* '@'; the domain is greedy and backtracks to the last '.' that two
\* letters follow; the letters after it are greedy.
EmailEnd(s, i) ==
    LET le == GreedyEnd(s, i, EmailLocalChars)
    IN  IF le < i \/ ~LiteralAt(s, le + 1, <<"@">>) THEN 0
        ELSE LET de == GreedyEnd(s, le + 2, EmailDomainChars)
                 dots == {k \in (le + 2)..de :
                             /\ LiteralAt(s, k + 1, <<".">>)
                             /\ GreedyEnd(s, k + 2, Letters) >= k + 3}
             IN  IF dots = {} THEN 0
                 ELSE LET k == CHOOSE d \in dots : \A f \in dots : f <= d
                      IN  GreedyEnd(s, k + 2, Letters)

\* url_pattern matched at position i: the end of the match of the first
\* alternative that matches there, 0 if none does.
UrlMatchEnd(s, i) ==
    LET http == PrefixedUrlEnd(s, i, <<"h","t","t","p",":","/","/">>)
        https == PrefixedUrlEnd(s, i, <<"h","t","t","p","s",":","/","/">>)
        www == PrefixedUrlEnd(s, i, <<"w","w","w",".">>)
    IN  IF http # 0 THEN http
        ELSE IF https # 0 THEN https
        ELSE IF www # 0 THEN www
        ELSE EmailEnd(s, i)

\* url_pattern.finditer(s) from position i on: the matched texts, leftmost
\* first, not overlapping.
RECURSIVE UrlMatchesFrom(_, _)
UrlMatchesFrom(s, i) ==
    IF i > Len(s) THEN <<>>
    ELSE LET e == UrlMatchEnd(s, i)
         IN  IF e # 0
             THEN <<SubSeq(s, i, e)>> \o UrlMatchesFrom(s, e + 1)
             ELSE UrlMatchesFrom(s, i + 1)

UrlMatches(s) == UrlMatchesFrom(s, 1)

\* pdf_url_map of rebuild_hyperlinks: the records with a text and a URL,
\* keyed by text.strip().lower(); a later record replaces an earlier one
\* with the same key.
PdfUrlKeys(links) ==
    {Lower(Strip(links[i].text)) :
        i \in {j \in 1..Len(links) : links[j].text # <<>> /\ links[j].url # <<>>}}

PdfUrl(links, key) ==
    LET hits == {j \in 1..Len(links) :
                    /\ links[j].text # <<>>
                    /\ links[j].url # <<>>
                    /\ Lower(Strip(links[j].text)) = key}
    IN  links[CHOOSE j \in hits : \A h \in hits : h <= j].url

\* The target _add_hyperlink_to_run and add_hyperlink relate to:
\*   if url.startswith('www.'): url = 'https://' + url
\*   elif '@' in url and not url.startswith('mailto:'): url = 'mailto:' + url
HyperlinkTarget(url) ==
    IF StartsWith(url, <<"w","w","w",".">>) THEN <<"h","t","t","p","s",":","/","/">> \o url
    ELSE IF Contains(url, <<"@">>) /\ ~StartsWith(url, <<"m","a","i","l","t","o",":">>)
    THEN <<"m","a","i","l","t","o",":">> \o url
    ELSE url

\* run.font.color.rgb = RGBColor(0, 0, 238); run.font.underline = True, then
\* _add_hyperlink_to_run(paragraph, run, url): the w:r is replaced, at its
\* place, by a w:hyperlink holding a new run with a copy of the run
\* properties and of the text of the first w:t element.
LinkedRun(r, url) ==
    [r EXCEPT !.tag = "hyperlink", !.text = SubSeq(r.text, 1, r.first),
              !.color = LinkBlue, !.underline = TRUE,
              !.target = HyperlinkTarget(url), !.url = url]

\* The first loop of _process_paragraph_for_hyperlinks: the runs whose
\* stripped lower-case text is a key of pdf_url_map.
LinkRunsByPdfMap(kids, links) ==
    [i \in 1..Len(kids) |->
        IF /\ kids[i].tag = "r"
           /\ kids[i].text # <<>>
           /\ Lower(Strip(kids[i].text)) \in PdfUrlKeys(links)
        THEN LinkedRun(kids[i], PdfUrl(links, Lower(Strip(kids[i].text))))
        ELSE kids[i]]

\* The second loop: a run still a child of the paragraph whose text holds
\* URL matches is replaced on its first match; for a later match of the
\* same run the relationship is made, the replacement raises (the run is
\* no longer a child) and the exception is swallowed.
LinkRunsByPattern(kids) ==
    [i \in 1..Len(kids) |->
        LET found == IF kids[i].tag = "r" THEN UrlMatches(kids[i].text) ELSE <<>>
        IN  IF found # <<>> THEN LinkedRun(kids[i], found[1]) ELSE kids[i]]

\* The targets part.relate_to is called with while a paragraph is processed.
RelatedByPdfMap(kids, links) ==
    {HyperlinkTarget(PdfUrl(links, Lower(Strip(kids[i].text)))) :
        i \in {j \in 1..Len(kids) :
                  /\ kids[j].tag = "r"
                  /\ kids[j].text # <<>>
                  /\ Lower(Strip(kids[j].text)) \in PdfUrlKeys(links)}}

RelatedByPattern(kids) ==
    UNION {LET found == UrlMatches(kids[i].text)
           IN  {HyperlinkTarget(found[m]) : m \in 1..Len(found)}
           : i \in {j \in 1..Len(kids) : kids[j].tag = "r"}}

\* paragraph.text: the text of the runs and of the hyperlinks.
KidsText(kids) == Concat([i \in 1..Len(kids) |-> kids[i].text])

\* _process_paragraph_for_hyperlinks(paragraph, url_pattern, pdf_url_map):
\* the children it leaves and the relationship targets it adds.
ProcessParagraphForHyperlinks(kids, links) ==
    LET mapped == LinkRunsByPdfMap(kids, links)
        byMap == RelatedByPdfMap(kids, links)
    IN  IF UrlMatches(KidsText(kids)) = <<>>
        THEN [kids |-> mapped, rels |-> byMap]
        ELSE [kids |-> LinkRunsByPattern(mapped),
              rels |-> byMap \cup RelatedByPattern(mapped)]

\* rebuild_hyperlinks(doc, pdf_hyperlinks) on the body paragraphs and on the
\* paragraphs of the table cells.
RebuildHyperlinksOnRuns(d, links) ==
    LET done == [k \in 1..Len(d.paras) |->
                    ProcessParagraphForHyperlinks(d.paras[k].kids, links)]
    IN  [paras |-> [k \in 1..Len(d.paras) |-> [d.paras[k] EXCEPT !.kids = done[k].kids]],
         rels |-> d.rels \cup UNION {done[k].rels : k \in 1..Len(d.paras)}]

\* End of a match of \d+(?:\.\d+)* continued after the digits ending at e.
RECURSIVE DottedEnd(_, _)
DottedEnd(s, e) ==
    IF LiteralAt(s, e + 1, <<".">>) /\ GreedyEnd(s, e + 2, Digits) >= e + 2
    THEN DottedEnd(s, GreedyEnd(s, e + 2, Digits))
    ELSE e

\* End of a match of \d+ (of \d+(?:\.\d+)* when dotted) at position i,
\* i - 1 if none.
NumberEnd(s, i, dotted) ==
    LET e == GreedyEnd(s, i, Digits)
    IN  IF e >= i /\ dotted THEN DottedEnd(s, e) ELSE e

\* The reference patterns of fix_cross_references: for each ref_type the
\* texts its first group matches (re.IGNORECASE, so in lower case). Only
\* the number group of the section pattern admits dotted numbers.
RefKinds == {"figure", "table", "section", "chapter", "equation"}

RefKeywords(kind) ==
    CASE kind = "figure" -> {<<"f","i","g","u","r","e">>, <<"f","i","g",".">>, <<"f","i","g">>}
      [] kind = "table" -> {<<"t","a","b","l","e">>}
      [] kind = "section" -> {<<"s","e","c","t","i","o","n">>, <<"s","e","c",".">>, <<"s","e","c">>}
      [] kind = "chapter" -> {<<"c","h","a","p","t","e","r">>}
      [] kind = "equation" -> {<<"e","q","u","a","t","i","o","n">>, <<"e","q",".">>, <<"e","q">>}

\* The number a match of  (keyword)\s+(number)  at position i captures, or,
\* with minSpaces = 0, of  (keyword)\s*(number);  <<>> if there is no match.
\* t is the text in lower case (re.IGNORECASE).
KeywordNumberAt(t, i, kw, minSpaces, dotted) ==
    LET from == i + Len(kw)
        se == GreedyEnd(t, from, Whitespace)
        ne == NumberEnd(t, se + 1, dotted)
    IN  IF LiteralAt(t, i, kw) /\ se >= from + minSpaces - 1 /\ ne >= se + 1
        THEN SubSeq(t, se + 1, ne)
        ELSE <<>>

\* match.group(2) of every re.finditer(pattern, text, re.IGNORECASE) match.
Mentions(text, kind) ==
    LET t == Lower(text)
    IN  {KeywordNumberAt(t, i, kw, 1, kind = "section") :
            i \in 1..Len(t), kw \in RefKeywords(kind)} \ {<<>>}

\* The number a caption pattern of _build_reference_map captures at the
\* start of the text: ^(keyword)\s*(\d+); the empty set if it does not match.
CaptionNumbers(text, kind) ==
    LET t == Lower(text)
    IN  {KeywordNumberAt(t, 1, kw, 0, FALSE) : kw \in RefKeywords(kind)} \ {<<>>}

\* [a-zA-Z0-9_]
WordChars == Letters \cup Digits \cup {"_"}

\* ^(\d+(?:\.\d+)*)\s+\w+ : the number of a numbered heading.
SectionNumbers(text) ==
    LET ne == NumberEnd(text, 1, TRUE)
        se == GreedyEnd(text, ne + 1, Whitespace)
    IN  IF ne >= 1 /\ se >= ne + 1 /\ se < Len(text) /\ text[se + 1] \in WordChars
        THEN {SubSeq(text, 1, ne)}
        ELSE {}

\* _build_reference_map(doc): the keys, as <<kind, number>>, over the body
\* paragraphs. Only figure, table and section keys are ever made.
BuildReferenceMap(paras) ==
    UNION {LET text == Strip(KidsText(paras[k].kids))
           IN  {<<"figure", n>> : n \in CaptionNumbers(text, "figure")}
               \cup {<<"table", n>> : n \in CaptionNumbers(text, "table")}
               \cup {<<"section", n>> : n \in SectionNumbers(text)}
           : k \in {j \in 1..Len(paras) : ~paras[j].inTable}}

\* fix_cross_references(doc): run.font.color.rgb = RGBColor(0, 0, 238) for
\* the runs of the body paragraphs with a mention whose key is in ref_map.
FixCrossReferencesOnRuns(paras) ==
    LET ref_map == BuildReferenceMap(paras)
    IN  [k \in 1..Len(paras) |->
           IF paras[k].inTable THEN paras[k]
           ELSE [paras[k] EXCEPT !.kids = [i \in 1..Len(@) |->
                    IF /\ @[i].tag = "r"
                       /\ \E kind \in RefKinds : \E n \in Mentions(@[i].text, kind) :
                             <<kind, n>> \in ref_map
                    THEN [@[i] EXCEPT !.color = LinkBlue]
                    ELSE @[i]]]]

\* The fills remove_paragraph_borders compares fill.upper() with.
RunArtifactFills ==
    {<<"F","5","F","5","F","5">>,
     <<"F","0","F","0","F","0">>,
     <<"E","F","E","F","E","F">>,
     <<"F","A","F","A","F","A">>,
     <<"E","0","E","0","E","0">>,
     <<"F","8","F","8","F","8">>,
     <<"E","8","E","8","E","8">>,
     <<"D","0","D","0","D","0">>,
     <<"F","F","F","F","F","F">>,
     <<"a","u","t","o">>}

\* The run part of remove_paragraph_borders, for the paragraphs
\* remove_all_paragraph_borders visits: those of the body and of the cells.
RemoveRunShading(paras) ==
    [k \in 1..Len(paras) |->
        [paras[k] EXCEPT !.kids = [i \in 1..Len(@) |->
            IF /\ @[i].tag = "r"
               /\ @[i].fill # <<>>
               /\ Upper(@[i].fill) \in RunArtifactFills
            THEN [@[i] EXCEPT !.fill = <<>>]
            ELSE @[i]]]]

\* The substrings apply_native_styles takes for a monospace font name.
MonoMarkers ==
    {<<"c","o","u","r","i","e","r">>, <<"c","o","n","s","o","l","a","s">>, <<"m","o","n","o">>, <<"c","o","d","e">>, <<"m","e","n","l","o">>}

\* The font part of apply_native_styles: the runs of the body paragraphs.
ApplyNativeStylesOnRuns(paras) ==
    [k \in 1..Len(paras) |->
        IF paras[k].inTable THEN paras[k]
        ELSE [paras[k] EXCEPT !.kids = [i \in 1..Len(@) |->
                 LET font_name == Lower(@[i].font)
                 IN  IF @[i].tag # "r" THEN @[i]
                     ELSE IF \E m \in MonoMarkers : Contains(font_name, m)
                     THEN [@[i] EXCEPT !.font = <<"C","o","n","s","o","l","a","s">>]
                     ELSE IF @[i].font = <<>> \/ Contains(font_name, <<"t","i","m","e","s">>)
                     THEN [@[i] EXCEPT !.font = <<"C","a","l","i","b","r","i">>]
                     ELSE @[i]]]]

\* What a pass of make_docx_native does to the runs and relationships. The
\* other passes leave run text, colour, font, shading and w:hyperlink alone
\* (the runs of the cell paragraphs here have no shading for the wrapper
\* table pass to remove); rebuild_toc adds no paragraph, the documents here
\* having no TOC title.
PassOnRuns(name, d, links) ==
    CASE name = "remove_all_paragraph_borders" ->
            [d EXCEPT !.paras = RemoveRunShading(d.paras)]
      [] name = "rebuild_hyperlinks" -> RebuildHyperlinksOnRuns(d, links)
      [] name = "fix_cross_references" ->
            [d EXCEPT !.paras = FixCrossReferencesOnRuns(d.paras)]
      [] name = "apply_native_styles" ->
            [d EXCEPT !.paras = ApplyNativeStylesOnRuns(d.paras)]
      [] OTHER -> d

\* A run with a font name, with a shading fill, with several text elements.
WithFont(r, font) == [r EXCEPT !.font = font]
WithFill(r, fill) == [r EXCEPT !.fill = fill]
SplitAt(r, n) == [r EXCEPT !.first = n]

BodyPara(kids) == [inTable |-> FALSE, kids |-> kids]

\* Input paragraphs: a run with a padded display text and a highlight, in
\* the body, and a plain one in a table cell; a URL in a run of its own that
\* holds two text elements, after a run with the fill auto; an e-mail
\* address and a URL in one run; an http URL with an '@'; a figure caption
\* with an artifact fill in a Courier font and a mention of it in a Times
\* font; a chapter heading in Arial; a numbered heading that mentions
\* itself; a mention, in Monaco, of a table the document does not have.
RunParagraphPalette ==
    << BodyPara(<<WithFill(Run(<<" ","D","o","c","s"," ">>, ""), <<"F","F","F","F","0","0">>)>>),
      [BodyPara(<<Run(<<" ","D","o","c","s"," ">>, "")>>) EXCEPT !.inTable = TRUE],
      BodyPara(<<WithFill(Run(<<"s","e","e"," ">>, ""), <<"a","u","t","o">>),
                 SplitAt(Run(<<"w","w","w",".","a",".","i","o">>, ""), 4)>>),
      BodyPara(<<Run(<<"a","@","b",".","i","o"," ","w","w","w",".","b",".","i","o">>, "")>>),
      BodyPara(<<Run(<<"h","t","t","p",":","/","/","a",".","i","o","/","@","x">>, "")>>),
      BodyPara(<<WithFill(WithFont(Run(<<"F","i","g","u","r","e"," ","1">>, ""), <<"C","o","u","r","i","e","r"," ","N","e","w">>), <<"f","5","f","5","f","5">>)>>),
      BodyPara(<<WithFont(Run(<<"s","e","e"," ","F","i","g","."," ","1">>, "000000"), <<"T","i","m","e","s"," ","N","e","w"," ","R","o","m","a","n">>)>>),
      BodyPara(<<WithFont(Run(<<"C","h","a","p","t","e","r"," ","1">>, "000000"), <<"A","r","i","a","l">>)>>),
      BodyPara(<<Run(<<"1",".","2"," ","G","o"," ","S","e","c","."," ","1",".","2">>, "")>>),
      BodyPara(<<WithFont(Run(<<"s","e","e"," ","T","a","b","l","e"," ","2">>, "000000"), <<"M","o","n","a","c","o">>)>>) >>

\* The documents: up to MaxRunParas different paragraphs, in that order.
InputRunDocuments ==
    UNION {{[i \in 1..n |-> RunParagraphPalette[pick[i]]] :
               pick \in {f \in [1..n -> 1..Len(RunParagraphPalette)] :
                            \A a, b \in 1..n : a < b => f[a] < f[b]}} :
           n \in 1..MaxRunParas}

\* Link records [text, url] as extract_pdf_hyperlinks returns them: an
\* external link, a second one with the same display text and a URL that
\* holds an '@', and an internal link (url None).
LinkRecordPalette ==
    { [text |-> <<"D","o","c","s">>, url |-> <<"h","t","t","p","s",":","/","/","a",".","i","o">>],
      [text |-> <<"d","o","c","s">>, url |-> <<"h","t","t","p","s",":","/","/","b",".","i","o","/","@","x">>],
      [text |-> <<"D","O","C","S">>, url |-> <<>>] }

InputLinkRecords ==
    UNION {[1..n -> LinkRecordPalette] : n \in 0..MaxLinks}

\* The runs of the document through the passes of make_docx_native.
RunsPass ==
    /\ LinksFrame
    /\ run_pass < Len(PassOrder)
    /\ LET result == PassOnRuns(PassOrder[run_pass + 1],
                                [paras |-> run_doc, rels |-> rels], pdf_hyperlinks)
       IN  /\ run_doc' = result.paras
           /\ rels' = result.rels
    /\ run_pass' = run_pass + 1
    /\ UNCHANGED <<pdf_hyperlinks, run_src>>

LinksInit ==
    /\ pdf_hyperlinks \in InputLinkRecords
    /\ run_src \in InputRunDocuments
    /\ run_doc = run_src
    /\ rels = {}
    /\ run_pass = 0

LinksIdle ==
    /\ pdf_hyperlinks = <<>>
    /\ run_src = <<>>
    /\ run_doc = <<>>
    /\ rels = {}
    /\ run_pass = 0

LinksNext == RunsPass

-----------------------------------------------------------------------------
(* Properties of the hyperlink and cross-reference passes.                 *)

\* rebuild_hyperlinks has run on the paragraphs.
HyperlinksRebuilt == run_pass >= 5

\* C16: once rebuild_hyperlinks has run, every run whose stripped lower-case
\* text equals that of the display text of a link record with a URL has
\* become a hyperlink with the run's text whose relationship targets the
\* record's URL, coloured blue and underlined, in the body and in table
\* cells alike.
C16_PdfLinksRebuilt ==
    HyperlinksRebuilt
    => \A k \in 1..Len(run_src) : \A i \in 1..Len(run_src[k].kids) :
          \A j \in 1..Len(pdf_hyperlinks) :
             LET r == run_src[k].kids[i]
                 link == pdf_hyperlinks[j]
                 h == run_doc[k].kids[i]
             IN  ( /\ link.url # <<>>
                   /\ link.text # <<>>
                   /\ Lower(Strip(r.text)) = Lower(Strip(link.text)) )
                 => /\ h.tag = "hyperlink"
                    /\ h.text = r.text
                    /\ h.target = link.url
                    /\ link.url \in rels
                    /\ h.color = "0000EE"
                    /\ h.underline

\* C19: the relationship target of a hyperlink made for a URL or e-mail
\* match is https:// + text for text starting with www., the text itself for
\* text starting with http://, https:// or mailto: (an '@' in it or not),
\* and mailto: + text for a bare e-mail address.
C19_LinkTargets ==
    HyperlinksRebuilt
    => \A k \in 1..Len(run_doc) : \A i \in 1..Len(run_doc[k].kids) :
          LET h == run_doc[k].kids[i]
              found == UrlMatches(run_src[k].kids[i].text)
          IN  (h.tag = "hyperlink" /\ \E m \in 1..Len(found) : found[m] = h.url)
              => /\ h.target \in rels
                 /\ h.target =
                       IF StartsWith(h.url, <<"w","w","w",".">>)
                       THEN <<"h","t","t","p","s",":","/","/">> \o h.url
                       ELSE IF \/ StartsWith(h.url, <<"h","t","t","p",":","/","/">>)
                               \/ StartsWith(h.url, <<"h","t","t","p","s",":","/","/">>)
                               \/ StartsWith(h.url, <<"m","a","i","l","t","o",":">>)
                       THEN h.url
                       ELSE <<"m","a","i","l","t","o",":">> \o h.url

\* The defining paragraph of a reference: a body paragraph whose text
\* starts with the kind's keyword and the number or, for a section, with
\* the number and a word.
Defines(paras, kind, n) ==
    \E k \in 1..Len(paras) :
        /\ ~paras[k].inTable
        /\ \/ n \in CaptionNumbers(Strip(KidsText(paras[k].kids)), kind) /\ kind # "section"
           \/ n \in SectionNumbers(Strip(KidsText(paras[k].kids))) /\ kind = "section"

\* C20: once fix_cross_references has run, a run of a body paragraph is
\* link-blue exactly when its text mentions, for one of the five kinds, a
\* number whose defining paragraph the document has; every other run has
\* the colour it came with.
C20_CrossReferencesStyled ==
    run_pass >= 8
    => \A k \in 1..Len(run_doc) : \A i \in 1..Len(run_doc[k].kids) :
          LET r == run_doc[k].kids[i]
              referenced == \E kind \in RefKinds : \E n \in Mentions(r.text, kind) :
                               Defines(run_doc, kind, n)
          IN  (r.tag = "r" /\ ~run_doc[k].inTable)
              => /\ referenced => r.color = "0000EE"
                 /\ ~referenced => r.color = run_src[k].kids[i].color

\* The monospace substrings as the specification lists them.
SpecifiedMonoMarkers == MonoMarkers \cup {<<"m","o","n","a","c","o">>}

\* C22: after style normalization, a run of a body paragraph whose font
\* name contains, ignoring case, one of courier, consolas, monaco, mono,
\* code or menlo has the font Consolas; any other run whose font is unset or
\* contains 'times' has the font Calibri; every remaining run keeps the font
\* name it had. Stated on the runs that are still direct children of their
\* paragraph.
C22_FontsNormalized ==
    run_pass = Len(PassOrder)
    => \A k \in 1..Len(run_doc) : \A i \in 1..Len(run_doc[k].kids) :
          LET r == run_doc[k].kids[i]
              was == run_src[k].kids[i].font
              name == Lower(was)
          IN  (r.tag = "r" /\ ~run_doc[k].inTable)
              => IF \E m \in SpecifiedMonoMarkers : Contains(name, m)
                 THEN r.font = <<"C","o","n","s","o","l","a","s">>
                 ELSE IF was = <<>> \/ Contains(name, <<"t","i","m","e","s">>)
                 THEN r.font = <<"C","a","l","i","b","r","i">>
                 ELSE r.font = was

\* The fill values of the artifact palette, compared ignoring case.
IsArtifactFill(fill) == \E a \in RunArtifactFills : Lower(a) = Lower(fill)

\* C26: once the border pass has run, a run that had a shading whose fill
\* is, ignoring case, an entry of the artifact palette has no shading, and a
\* run with any other fill has the shading it had.
C26_RunShadingRemoved ==
    run_pass >= 3
    => \A k \in 1..Len(run_doc) : \A i \in 1..Len(run_doc[k].kids) :
          LET was == run_src[k].kids[i].fill
          IN  was # <<>>
              => run_doc[k].kids[i].fill = IF IsArtifactFill(was) THEN <<>> ELSE was

\* C29: once rebuild_hyperlinks has run, the concatenated text of the runs
\* and hyperlink runs of every paragraph is what it was in the input.
C29_LinkTextPreserved ==
    HyperlinksRebuilt
    => \A k \in 1..Len(run_doc) :
          KidsText(run_doc[k].kids) = KidsText(run_src[k].kids)

-----------------------------------------------------------------------------
(* The bookmark elements. The document is a TOC title, which is not a      *)
(* heading here, followed by the paragraphs of bm_paras: rebuild_toc       *)
(* bookmarks the headings among them through _add_toc_field and inserts    *)
(* the TOC field paragraph after the title, then                           *)
(* rebuild_list_of_figures_tables bookmarks the captions. A paragraph is   *)
(* [heading, caption, kids]: whether _collect_headings collects it, which  *)
(* caption pattern its text matches ("none", "figure" or "table"), and the *)
(* children of its w:p in order, each [tag, id, name].                     *)

MaxBmParas == 2
MaxIds == 2

\* random.randint(10000, 99999)
BookmarkIdLow == 10000
BookmarkIdHigh == 99999

\* The ids the generator returns here: the lowest ones and the highest.
BookmarkIds ==
    {n \in BookmarkIdLow..(BookmarkIdLow + MaxIds - 2) : n <= BookmarkIdHigh}
    \cup {BookmarkIdHigh}

Element(tag) == [tag |-> tag, id |-> 0, name |-> <<>>]

\* _add_bookmark_to_paragraph(paragraph, bookmark_name), the generator
\* returning id: p.insert(0, bookmark_start); p.append(bookmark_end).
add_bookmark_to_paragraph(kids, bookmark_name, id) ==
    <<[tag |-> "bookmarkStart", id |-> id, name |-> bookmark_name]>>
    \o kids
    \o <<[tag |-> "bookmarkEnd", id |-> id, name |-> <<>>]>>

\* The calls of one run, in order, as (position in bm_paras, name): those
\* of _add_toc_field for the headings, the paragraph at position k having
\* the index k behind the title, then those of
\* rebuild_list_of_figures_tables for the captions, the index being k + 1
\* behind the title and the TOC field paragraph.
RECURSIVE HeadingCalls(_, _)
HeadingCalls(paras, k) ==
    IF k > Len(paras) THEN <<>>
    ELSE (IF paras[k].heading THEN <<[k |-> k, name |-> <<"_Toc", k>>]>> ELSE <<>>)
         \o HeadingCalls(paras, k + 1)

RECURSIVE CaptionCalls(_, _)
CaptionCalls(paras, k) ==
    IF k > Len(paras) THEN <<>>
    ELSE (CASE paras[k].caption = "figure" -> <<[k |-> k, name |-> <<"_FigRef", k + 1>>]>>
            [] paras[k].caption = "table" -> <<[k |-> k, name |-> <<"_TblRef", k + 1>>]>>
            [] OTHER -> <<>>)
         \o CaptionCalls(paras, k + 1)

BookmarkCalls(paras) == HeadingCalls(paras, 1) \o CaptionCalls(paras, 1)

\* Input paragraphs: a heading, a figure caption, a table caption that is a
\* heading by its formatting, a plain paragraph.
BookmarkParagraphPalette ==
    << [heading |-> TRUE, caption |-> "none", kids |-> <<Element("pPr"), Element("r")>>],
       [heading |-> FALSE, caption |-> "figure", kids |-> <<Element("r")>>],
       [heading |-> TRUE, caption |-> "table", kids |-> <<Element("pPr"), Element("r")>>],
       [heading |-> FALSE, caption |-> "none", kids |-> <<Element("r")>>] >>

InputBookmarkDocuments ==
    UNION {[1..n -> {BookmarkParagraphPalette[i] : i \in 1..Len(BookmarkParagraphPalette)}]
           : n \in 1..MaxBmParas}

\* One call of _add_bookmark_to_paragraph, the next one of the run.
AddBookmarkToParagraph ==
    /\ BookmarkFrame
    /\ bm_calls < Len(BookmarkCalls(bm_paras))
    /\ \E id \in BookmarkIds :
          LET call == BookmarkCalls(bm_paras)[bm_calls + 1]
          IN  bm_paras' = [bm_paras EXCEPT ![call.k].kids =
                              add_bookmark_to_paragraph(@, call.name, id)]
    /\ bm_calls' = bm_calls + 1

BookmarkInit ==
    /\ bm_paras \in InputBookmarkDocuments
    /\ bm_calls = 0

BookmarkIdle ==
    /\ bm_paras = <<>>
    /\ bm_calls = 0

BookmarkNext == AddBookmarkToParagraph

\* The bookmarkStart elements of the document, as (paragraph, child).
StartElements ==
    {pos \in UNION {{<<k, j>> : j \in 1..Len(bm_paras[k].kids)} : k \in 1..Len(bm_paras)} :
        bm_paras[pos[1]].kids[pos[2]].tag = "bookmarkStart"}

\* C27: every bookmarkStart is the first child of its paragraph, the last
\* child of that paragraph is a bookmarkEnd with its id, which is the only
\* bookmarkEnd with that id in the paragraph, its id is in 10000..99999 and
\* no other bookmarkStart of the document has its id.
C27_BookmarksWellFormed ==
    \A pos \in StartElements :
        LET kids == bm_paras[pos[1]].kids
            start == kids[pos[2]]
            ends == {j \in 1..Len(kids) :
                        kids[j].tag = "bookmarkEnd" /\ kids[j].id = start.id}
        IN  /\ pos[2] = 1
            /\ ends = {Len(kids)}
            /\ start.id \in BookmarkIdLow..BookmarkIdHigh
            /\ \A other \in StartElements :
                  other # pos => bm_paras[other[1]].kids[other[2]].id # start.id

-----------------------------------------------------------------------------
(* The output directory. A path is [dir, stem, ext]: dir "out" is the      *)
(* output directory and dir "tmp" its subdirectory _temp_pdf; stem is the  *)
(* input file's stem (0 for an entry no input file names). A path holds    *)
(* "absent", "dir", "raw" (a file as a tool or engine wrote it) or         *)
(* "native" (a DOCX the rewriter has saved).                               *)

Stems == 1..MaxFiles

OutDocx(s) == [dir |-> "out", stem |-> s, ext |-> "docx"]
Pdf(dir, s) == [dir |-> dir, stem |-> s, ext |-> "pdf"]
Aux(dir, s) == [dir |-> dir, stem |-> s, ext |-> "aux"]
\* temp_dir = output_dir / "_temp_pdf"
TempDir == [dir |-> "out", stem |-> 0, ext |-> "_temp_pdf"]
\* A file somebody else keeps in a directory of that name.
TempDirOther == [dir |-> "tmp", stem |-> 0, ext |-> "other"]

Paths ==
    {TempDir, TempDirOther}
    \cup {OutDocx(s) : s \in Stems}
    \cup {Pdf(d, s) : d \in {"out", "tmp"}, s \in Stems}
    \cup {Aux(d, s) : d \in {"out", "tmp"}, s \in Stems}

\* shutil.rmtree(temp_dir): the directory and everything in it.
rmtree(fs) ==
    [p \in Paths |-> IF p = TempDir \/ p.dir = "tmp" THEN "absent" ELSE fs[p]]

\* temp_dir.mkdir(parents=True, exist_ok=True)
mkdir(fs) == [fs EXCEPT ![TempDir] = "dir"]

-----------------------------------------------------------------------------
(* The adapters. Each yields [files, raised, ok, result]: raised tells that *)
(* the call ended in an exception instead of returning its pair.           *)

Returned(fs, ok, result) == [files |-> fs, raised |-> FALSE, ok |-> ok, result |-> result]

Raised(fs, what) == [files |-> fs, raised |-> TRUE, ok |-> FALSE, result |-> what]

\* compile_latex_to_pdf(tex_file, dir): pdflatex writes the PDF and its
\* auxiliary files into dir, or fails leaving auxiliary files only.
compile_latex_to_pdf(fs, s, dir, latex) ==
    IF latex = "ok"
    THEN Returned([fs EXCEPT ![Pdf(dir, s)] = "raw", ![Aux(dir, s)] = "raw"], TRUE, "path")
    ELSE Returned([fs EXCEPT ![Aux(dir, s)] = "raw"], FALSE, "latex error")

\* clean_latex_auxiliary_files(tex_file, dir)
clean_latex_auxiliary_files(fs, s, dir) == [fs EXCEPT ![Aux(dir, s)] = "absent"]

\* make_docx_native without its except clause: an exception of the rewrite
\* reaches the adapter.
MakeDocxNativePropagates(content, rewrite) ==
    [raised |-> rewrite = "raise",
     content |-> IF rewrite = "ok" THEN "native" ELSE content]

\* make_docx_native as the adapter sees it: it never raises; the file is
\* rewritten when no step of the rewrite raised and left as it was otherwise.
\* rewrite is "ok" or "raise".
MakeDocxNativeOnFile(content, rewrite) ==
    [raised |-> FALSE,
     content |-> IF rewrite = "ok" THEN "native" ELSE content]

\* convert_pdf_to_docx_enhanced(pdf_file, output_dir). importable: pdf2docx
\* can be imported; engine: what Converter(...).convert / close do, "write"
\* (the DOCX is written), "nothing" (they return without writing it) or
\* "raise".
convert_pdf_to_docx_enhanced(fs, s, importable, engine, rewrite) ==
    IF ~importable THEN Raised(fs, "ImportError")
    ELSE IF engine = "raise" THEN Returned(fs, FALSE, "engine error")
    ELSE LET written == IF engine = "write" THEN [fs EXCEPT ![OutDocx(s)] = "raw"] ELSE fs
         IN  IF written[OutDocx(s)] # "absent"
             THEN LET post == MakeDocxNativeOnFile(written[OutDocx(s)], rewrite)
                      kept == [written EXCEPT ![OutDocx(s)] = post.content]
                  IN  IF post.raised THEN Returned(kept, FALSE, "rewrite error")
                      ELSE Returned(kept, TRUE, "path")
             ELSE Returned(written, FALSE, "DOCX file was not created")

\* convert_docx_to_pdf(docx_file, output_dir). engine: what docx2pdf.convert
\* does, "write", "nothing", "raise" or "raise_word" (an exception whose
\* message mentions Word or win32com).
convert_docx_to_pdf(fs, s, importable, engine) ==
    IF ~importable THEN Returned(fs, FALSE, "ImportError")
    ELSE IF engine = "raise" THEN Returned(fs, FALSE, "engine error")
    ELSE IF engine = "raise_word"
    THEN Returned(fs, FALSE, "Microsoft Word is required")
    ELSE LET written == IF engine = "write" THEN [fs EXCEPT ![Pdf("out", s)] = "raw"] ELSE fs
         IN  IF written[Pdf("out", s)] # "absent"
             THEN Returned(written, TRUE, "path")
             ELSE Returned(written, FALSE, "PDF file was not created")

-----------------------------------------------------------------------------
(* The single-file pipeline functions. Each yields [files, raised, ret,    *)
(* called, adapter]: ret is the returned bool, called names the conversion *)
(* adapter the call reached ("none" when it reached none) and adapter is   *)
(* what that adapter yielded.                                              *)

NoAdapter == Returned(<<>>, FALSE, "none")

Outcome(fs, isRaised, ret, called, adapter) ==
    [files |-> fs, raised |-> isRaised, ret |-> ret, called |-> called,
     adapter |-> [raised |-> adapter.raised, ok |-> adapter.ok, result |-> adapter.result]]

convert_single_tex_to_pdf(fs, s, latex) ==
    LET c == compile_latex_to_pdf(fs, s, "out", latex)
    IN  IF c.ok
        THEN Outcome(clean_latex_auxiliary_files(c.files, s, "out"), FALSE, TRUE, "none", NoAdapter)
        ELSE Outcome(c.files, FALSE, FALSE, "none", NoAdapter)

convert_single_tex_to_docx(fs, s, latex, importable, engine, rewrite) ==
    LET c == compile_latex_to_pdf(mkdir(fs), s, "tmp", latex)
    IN  IF ~c.ok
        THEN Outcome(rmtree(c.files), FALSE, FALSE, "none", NoAdapter)
        ELSE LET a == convert_pdf_to_docx_enhanced(c.files, s, importable, engine, rewrite)
             IN  IF a.raised
                 THEN Outcome(a.files, TRUE, FALSE, "convert_pdf_to_docx_enhanced", a)
                 ELSE Outcome(rmtree(clean_latex_auxiliary_files(a.files, s, "tmp")),
                              FALSE, a.ok, "convert_pdf_to_docx_enhanced", a)

convert_single_pdf_to_docx(fs, s, importable, engine, rewrite) ==
    LET a == convert_pdf_to_docx_enhanced(fs, s, importable, engine, rewrite)
    IN  Outcome(a.files, a.raised, a.ok, "convert_pdf_to_docx_enhanced", a)

convert_single_docx_to_pdf(fs, s, importable, engine) ==
    LET a == convert_docx_to_pdf(fs, s, importable, engine)
    IN  Outcome(a.files, a.raised, a.ok, "convert_docx_to_pdf", a)

LatexOutcomes == {"ok", "fail"}
PdfEngineOutcomes == {"write", "nothing", "raise"}
DocxEngineOutcomes == {"write", "nothing", "raise", "raise_word"}
RewriteOutcomes == {"ok", "raise"}

Modes == {"tex2pdf", "tex2docx", "pdf2docx", "docx2pdf"}

\* The single-file function of a mode, on input file s, in an environment
\* env = [latex, engine, rewrite] that fixes what the external tools do.
ConvertSingle(mode, fs, libs, s, env) ==
    CASE mode = "tex2pdf"  -> convert_single_tex_to_pdf(fs, s, env.latex)
      [] mode = "tex2docx" -> convert_single_tex_to_docx(fs, s, env.latex, "pdf2docx" \in libs,
                                                          env.engine, env.rewrite)
      [] mode = "pdf2docx" -> convert_single_pdf_to_docx(fs, s, "pdf2docx" \in libs,
                                                          env.engine, env.rewrite)
      [] mode = "docx2pdf" -> convert_single_docx_to_pdf(fs, s, "docx2pdf" \in libs, env.engine)

\* What the external tools can do during one call of a mode's function.
Environments(mode) ==
    [latex : IF mode \in {"tex2pdf", "tex2docx"} THEN LatexOutcomes ELSE {"unused"},
     engine : CASE mode = "tex2pdf" -> {"unused"}
                [] mode = "docx2pdf" -> DocxEngineOutcomes
                [] OTHER -> PdfEngineOutcomes,
     rewrite : IF mode \in {"tex2docx", "pdf2docx"} THEN RewriteOutcomes ELSE {"unused"}]

\* The record kept of a single-file call.
CallRecord(mode, s, env, before, o) ==
    [mode |-> mode, stem |-> s, env |-> env, before |-> before,
     raised |-> o.raised, ret |-> o.ret, called |-> o.called, adapter |-> o.adapter]

NoCall ==
    [mode |-> "none", stem |-> 0,
     env |-> [latex |-> "unused", engine |-> "unused", rewrite |-> "unused"],
     before |-> "absent",
     raised |-> FALSE, ret |-> FALSE, called |-> "none",
     adapter |-> [raised |-> FALSE, ok |-> FALSE, result |-> "none"]]

\* before: what the output path of the call held when the call began.
OutputPath(mode, s) == IF mode \in {"tex2pdf", "docx2pdf"} THEN Pdf("out", s) ELSE OutDocx(s)

-----------------------------------------------------------------------------
(* The batch pipeline functions: find_files, then one loop iteration per   *)
(* file. batch is [mode, state, todo, found, success, failed, attempts]:   *)
(* state is "none", "running", "returned" or "raised" (the call ended in   *)
(* an exception); todo are the files the loop has not reached yet.         *)

NoBatch ==
    [mode |-> "none", state |-> "none", todo |-> <<>>, found |-> {},
     success |-> 0, failed |-> 0, attempts |-> [s \in Stems |-> 0]]

\* find_files(input_dir, ext): the matching files, in directory order.
RECURSIVE Ascending(_)
Ascending(set) ==
    IF set = {} THEN <<>>
    ELSE LET m == CHOOSE x \in set : \A y \in set : x <= y
         IN  <<m>> \o Ascending(set \ {m})

\* One loop iteration of the batch function of `mode` on file s: it yields
\* [files, raised, ok].
Iteration(fs, isRaised, ok) == [files |-> fs, raised |-> isRaised, ok |-> ok]

BatchBody(mode, fs, libs, s, env) ==
    CASE mode = "tex2pdf" ->
            LET c == compile_latex_to_pdf(fs, s, "out", env.latex)
            IN  IF c.ok
                THEN Iteration(clean_latex_auxiliary_files(c.files, s, "out"), FALSE, TRUE)
                ELSE Iteration(c.files, FALSE, FALSE)
      [] mode = "tex2docx" ->
            LET c == compile_latex_to_pdf(fs, s, "tmp", env.latex)
            IN  IF ~c.ok THEN Iteration(c.files, FALSE, FALSE)
                ELSE LET a == convert_pdf_to_docx_enhanced(c.files, s, "pdf2docx" \in libs,
                                                           env.engine, env.rewrite)
                     IN  IF a.raised THEN Iteration(a.files, TRUE, FALSE)
                         ELSE Iteration(clean_latex_auxiliary_files(a.files, s, "tmp"),
                                        FALSE, a.ok)
      [] mode = "pdf2docx" ->
            LET a == convert_pdf_to_docx_enhanced(fs, s, "pdf2docx" \in libs,
                                                  env.engine, env.rewrite)
            IN  Iteration(a.files, a.raised, a.ok)
      [] mode = "docx2pdf" ->
            LET a == convert_docx_to_pdf(fs, s, "docx2pdf" \in libs, env.engine)
            IN  Iteration(a.files, a.raised, a.ok)

\* The call of a batch function: find_files, the counters, and for
\* convert_tex_to_docx the temporary directory.
BatchCall(mode) ==
    /\ PipelineFrame
    /\ batch.state = "none"
    /\ last.mode = "none"
    /\ \E found \in SUBSET Stems :
          batch' = [NoBatch EXCEPT !.mode = mode, !.state = "running",
                                   !.todo = Ascending(found), !.found = found]
    /\ files' = IF mode = "tex2docx" THEN mkdir(files) ELSE files
    /\ UNCHANGED <<installed, last>>

\* The loop body on the next file.
BatchIterate(mode) ==
    /\ PipelineFrame
    /\ batch.state = "running"
    /\ batch.mode = mode
    /\ batch.todo # <<>>
    /\ \E env \in Environments(mode) :
          LET s == Head(batch.todo)
              it == BatchBody(mode, files, installed, s, env)
          IN  /\ files' = it.files
              /\ batch' = [batch EXCEPT
                    !.todo = Tail(@),
                    !.attempts[s] = @ + 1,
                    !.state = IF it.raised THEN "raised" ELSE @,
                    !.success = IF ~it.raised /\ it.ok THEN @ + 1 ELSE @,
                    !.failed = IF ~it.raised /\ ~it.ok THEN @ + 1 ELSE @]
    /\ UNCHANGED <<installed, last>>

\* The loop is over: convert_tex_to_docx removes its temporary directory,
\* and the counts are returned.
BatchReturn(mode) ==
    /\ PipelineFrame
    /\ batch.state = "running"
    /\ batch.mode = mode
    /\ batch.todo = <<>>
    /\ files' = IF mode = "tex2docx" THEN rmtree(files) ELSE files
    /\ batch' = [batch EXCEPT !.state = "returned"]
    /\ UNCHANGED <<installed, last>>

-----------------------------------------------------------------------------
(* Calls of the single-file pipeline functions.                            *)

SingleCall(mode) ==
    /\ PipelineFrame
    /\ batch.state = "none"
    /\ last.mode = "none"
    /\ \E s \in Stems, env \in Environments(mode) :
          LET o == ConvertSingle(mode, files, installed, s, env)
          IN  /\ files' = o.files
              /\ last' = CallRecord(mode, s, env, files[OutputPath(mode, s)], o)
    /\ UNCHANGED <<installed, batch>>

SingleTexToPdf == SingleCall("tex2pdf")
SingleTexToDocx == SingleCall("tex2docx")
SinglePdfToDocx == SingleCall("pdf2docx")
SingleDocxToPdf == SingleCall("docx2pdf")

BatchTexToPdfCall == BatchCall("tex2pdf")
BatchTexToDocxCall == BatchCall("tex2docx")
BatchPdfToDocxCall == BatchCall("pdf2docx")
BatchDocxToPdfCall == BatchCall("docx2pdf")

BatchTexToPdfIterate == BatchIterate("tex2pdf")
BatchTexToDocxIterate == BatchIterate("tex2docx")
BatchPdfToDocxIterate == BatchIterate("pdf2docx")
BatchDocxToPdfIterate == BatchIterate("docx2pdf")

BatchTexToPdfReturn == BatchReturn("tex2pdf")
BatchTexToDocxReturn == BatchReturn("tex2docx")
BatchPdfToDocxReturn == BatchReturn("pdf2docx")
BatchDocxToPdfReturn == BatchReturn("docx2pdf")

Libraries == {"pdf2docx", "docx2pdf"}

\* One call of a pipeline function is followed from an output directory
\* that holds the outputs of earlier conversions of some of the input files
\* and possibly a directory _temp_pdf with a file in it; any of the two
\* libraries may be missing.
PipelineInit ==
    /\ \E kept \in BOOLEAN, earlier \in SUBSET Stems :
          files = [p \in Paths |->
                     IF p = TempDir THEN (IF kept THEN "dir" ELSE "absent")
                     ELSE IF p = TempDirOther THEN (IF kept THEN "raw" ELSE "absent")
                     ELSE IF p.dir = "out" /\ p.ext \in {"docx", "pdf"} /\ p.stem \in earlier
                          THEN "raw"
                     ELSE "absent"]
    /\ installed \in SUBSET Libraries
    /\ last = NoCall
    /\ batch = NoBatch

PipelineIdle ==
    /\ files = [p \in Paths |-> "absent"]
    /\ installed = {}
    /\ last = NoCall
    /\ batch = NoBatch

PipelineNext ==
    \/ SingleTexToPdf
    \/ SingleTexToDocx
    \/ SinglePdfToDocx
    \/ SingleDocxToPdf
    \/ BatchTexToPdfCall
    \/ BatchTexToDocxCall
    \/ BatchPdfToDocxCall
    \/ BatchDocxToPdfCall
    \/ BatchTexToPdfIterate
    \/ BatchTexToDocxIterate
    \/ BatchPdfToDocxIterate
    \/ BatchDocxToPdfIterate
    \/ BatchTexToPdfReturn
    \/ BatchTexToDocxReturn
    \/ BatchPdfToDocxReturn
    \/ BatchDocxToPdfReturn

-----------------------------------------------------------------------------
(* Properties of the pipeline functions and the adapters.                  *)

\* The engine of the adapter the last call reached ran to its end: its
\* library was importable and it did not raise.
EngineCompleted ==
    /\ last.called # "none"
    /\ (last.called = "convert_pdf_to_docx_enhanced") => "pdf2docx" \in installed
    /\ (last.called = "convert_docx_to_pdf") => "docx2pdf" \in installed
    /\ last.env.engine \in {"write", "nothing"}

\* C28: a TEX to DOCX conversion of one file leaves every directory and
\* file that was in the output directory before the call as it was, the
\* output DOCX apart: a _temp_pdf directory that was there, and the file in
\* it, are still there afterwards.
C28_OutputDirKept ==
    [][ SingleTexToDocx
        => \A p \in Paths :
              (files[p] # "absent" /\ p \notin {OutDocx(s) : s \in Stems})
              => files'[p] = files[p] ]_vars

\* C3: when convert_single_tex_to_docx has ended, by a return or by an
\* exception, neither _temp_pdf nor anything in it exists.
C3_TempDirRemoved ==
    (last.mode = "tex2docx")
    => \A p \in Paths : (p = TempDir \/ p.dir = "tmp") => files[p] = "absent"

\* C7: a batch function never ends in an exception, and when it has returned
\* every file found was attempted once, no other file was attempted, and the
\* two counts add up to the number of files found.
C7_BatchCounts ==
    /\ batch.state # "raised"
    /\ (batch.state = "returned")
       => /\ \A s \in Stems : batch.attempts[s] = (IF s \in batch.found THEN 1 ELSE 0)
          /\ batch.success + batch.failed = Cardinality(batch.found)

\* C8: an adapter that was called has not raised; it returned True with the
\* output path or False with a message.
C8_AdaptersNeverRaise ==
    (last.called # "none")
    => /\ ~last.adapter.raised
       /\ (last.adapter.ok <=> (last.adapter.result = "path"))

\* C9: when the engine ran to its end without writing the output file, the
\* adapter reports failure, whatever the output path held before the call.
C9_NoOutputIsFailure ==
    (EngineCompleted /\ last.env.engine = "nothing") => ~last.adapter.ok

\* C10: when the PDF to DOCX engine has written the output file, the adapter
\* returns True with the output path, the pipeline function returns True and
\* the DOCX is in the output directory, whether the rewriter raised or not.
C10_PostprocessNonFatal ==
    ( /\ last.called = "convert_pdf_to_docx_enhanced"
      /\ "pdf2docx" \in installed
      /\ last.env.engine = "write" )
    => /\ ~last.adapter.raised
       /\ last.adapter.ok
       /\ last.adapter.result = "path"
       /\ ~last.raised
       /\ last.ret
       /\ files[OutDocx(last.stem)] # "absent"

C10_Witness ==
    /\ last.mode = "pdf2docx"
    /\ last.called = "convert_pdf_to_docx_enhanced"
    /\ "pdf2docx" \in installed
    /\ last.env.engine = "write"
    /\ last.env.rewrite = "raise"
    /\ last.adapter.ok
    /\ last.ret
    /\ files[OutDocx(last.stem)] = "raw"

\* C11: when a TEX to PDF call has ended (the single-file function, or the
\* batch function after its loop), no auxiliary file of any compiled input
\* is in the output directory, whether its compile succeeded or failed.
C11_AuxRemovedAfterCompile ==
    ( \/ last.mode = "tex2pdf"
      \/ (batch.mode = "tex2pdf" /\ batch.state = "returned") )
    => \A s \in Stems : files[Aux("out", s)] = "absent"

-----------------------------------------------------------------------------
(* The command line: run_single_conversion(mode, input_file, output_dir,   *)
(* packages).                                                              *)

\* The requirement checks of run_single_conversion: the error it prints,
\* "none" when it goes on to convert.
CliRequirementError(mode, latex, pkgs) ==
    IF mode \in {"tex2pdf", "tex2docx"} /\ ~latex
    THEN "LaTeX (pdflatex) is not installed."
    ELSE IF mode \in {"tex2docx", "pdf2docx"} /\ "pdf2docx" \notin pkgs
    THEN "pdf2docx is required but not available."
    ELSE IF mode = "docx2pdf" /\ "docx2pdf" \notin pkgs
    THEN "docx2pdf is required but not available."
    ELSE "none"

\* The pipeline function a mode is dispatched to.
SingleFunction(mode) ==
    CASE mode = "tex2pdf"  -> "convert_single_tex_to_pdf"
      [] mode = "tex2docx" -> "convert_single_tex_to_docx"
      [] mode = "pdf2docx" -> "convert_single_pdf_to_docx"
      [] mode = "docx2pdf" -> "convert_single_docx_to_pdf"

NoCliRun == [mode |-> "none", error |-> "none", called |-> "none", summary |-> "none"]

\* mode_map of interactive_mode: the extension asked for with a mode.
ExpectedExt(mode) ==
    CASE mode \in {"tex2pdf", "tex2docx"} -> "tex"
      [] mode = "pdf2docx" -> "pdf"
      [] mode = "docx2pdf" -> "docx"

\* The paths a user can give: what is found there and path.suffix.lower()
\* without its dot.
CliInputPaths == [kind : {"missing", "dir", "file"}, suffix : {"tex", "pdf", "docx"}]

\* How many paths the user types at the prompt of get_input_file at most.
MaxEntries == 2
EnteredPaths == UNION {[1..n -> CliInputPaths] : n \in 1..MaxEntries}

\* get_input_file returns the path: it exists, is a file and has the
\* expected suffix; any other entry is reported and asked for again.
GetInputFileAccepts(path, expected_ext) ==
    /\ path.kind # "missing"
    /\ path.kind = "file"
    /\ path.suffix = expected_ext

\* main with --mode and --input goes on to run_single_conversion.
DirectModeAccepts(path) == path.kind # "missing"

\* main with --mode and --input, the input file missing: the error is
\* printed and main returns.
MainFileNotFound ==
    /\ FrontFrame
    /\ entry = "cli"
    /\ cli = NoCliRun
    /\ \E mode \in Modes, path \in CliInputPaths :
          /\ ~DirectModeAccepts(path)
          /\ cli' = [mode |-> mode, error |-> "File not found", called |-> "none",
                     summary |-> "none", via |-> "direct", input |-> path,
                     reprompts |-> 0]
    /\ UNCHANGED <<entry, latex_available, packages, input_file, combo, convert_btn,
                   progress, status, action_buttons, workers, shown_error>>

\* The one call a command-line process makes (main calls it once, directly
\* or through interactive_mode): the error, or the conversion and its
\* summary line.
RunSingleConversion ==
    /\ FrontFrame
    /\ entry = "cli"
    /\ cli = NoCliRun
    /\ \E mode \in Modes, success \in BOOLEAN, via \in {"direct", "interactive"},
          entered \in EnteredPaths :
          LET error == CliRequirementError(mode, latex_available, packages)
              path == entered[Len(entered)]
              run == IF error # "none"
                     THEN [mode |-> mode, error |-> error, called |-> "none",
                           summary |-> "none"]
                     ELSE [mode |-> mode, error |-> "none", called |-> SingleFunction(mode),
                           summary |-> IF success THEN "completed" ELSE "failed"]
          IN  /\ via = "direct" => Len(entered) = 1 /\ DirectModeAccepts(path)
              /\ via = "interactive"
                 => /\ GetInputFileAccepts(path, ExpectedExt(mode))
                    /\ \A i \in 1..(Len(entered) - 1) :
                          ~GetInputFileAccepts(entered[i], ExpectedExt(mode))
              /\ cli' = [mode |-> run.mode, error |-> run.error, called |-> run.called,
                         summary |-> run.summary, via |-> via, input |-> path,
                         reprompts |-> Len(entered) - 1]
    /\ UNCHANGED <<entry, latex_available, packages, input_file, combo, convert_btn,
                   progress, status, action_buttons, workers, shown_error>>

-----------------------------------------------------------------------------
(* The window: MainWindow and its ConversionWorker threads.                *)

Suffixes == {".tex", ".pdf", ".docx", ".txt"}

\* update_conversion_options: the items the combo box holds for a suffix.
ConversionOptions(suffix) ==
    CASE suffix = ".tex"  -> <<"PDF", "DOCX">>
      [] suffix = ".pdf"  -> <<"DOCX">>
      [] suffix = ".docx" -> <<"PDF">>
      [] OTHER -> <<>>

\* conv_combo.currentText().lower()
CurrentTarget(c) ==
    IF c.items = <<>> THEN ""
    ELSE IF c.items[c.index] = "PDF" THEN "pdf" ELSE "docx"

\* get_conversion_mode: "none" is None.
get_conversion_mode(suffix, c) ==
    LET target == CurrentTarget(c)
    IN  IF suffix = "none" THEN "none"
        ELSE IF suffix = ".tex" /\ target = "pdf" THEN "tex2pdf"
        ELSE IF suffix = ".tex" /\ target = "docx" THEN "tex2docx"
        ELSE IF suffix = ".pdf" /\ target = "docx" THEN "pdf2docx"
        ELSE IF suffix = ".docx" /\ target = "pdf" THEN "docx2pdf"
        ELSE "none"

\* The requirement checks of start_conversion without the library checks.
GuiRequirementErrorLatexOnly(mode, latex, pkgs) ==
    IF mode \in {"tex2pdf", "tex2docx"} /\ ~latex
    THEN "LaTeX (pdflatex) is not installed."
    ELSE "none"

\* The requirement checks of start_conversion.
GuiRequirementError(mode, latex, pkgs) ==
    IF mode \in {"tex2pdf", "tex2docx"} /\ ~latex
    THEN "LaTeX (pdflatex) is not installed."
    ELSE IF mode \in {"tex2docx", "pdf2docx"} /\ "pdf2docx" \notin pkgs
    THEN "pdf2docx package is not available."
    ELSE IF mode = "docx2pdf" /\ "docx2pdf" \notin pkgs
    THEN "docx2pdf package is not available."
    ELSE "none"

\* on_file_dropped(file_path) with a path: a file dropped on the drop zone
\* (any suffix) or picked in the file dialog.
FileChosen(suffix) ==
    /\ FrontFrame
    /\ entry = "gui"
    /\ input_file' = suffix
    /\ combo' = [items |-> ConversionOptions(suffix), index |-> 1]
    /\ convert_btn' = TRUE
    /\ status' = ""
    /\ action_buttons' = FALSE
    /\ UNCHANGED <<entry, latex_available, packages, cli, progress, workers, shown_error>>

OnFileDropped == \E suffix \in Suffixes : FileChosen(suffix)

\* on_file_dropped("") after a click on the drop zone: the dialog offers
\* *.tex, *.pdf and *.docx, and may be cancelled.
OnBrowse ==
    \/ \E suffix \in {".tex", ".pdf", ".docx"} : FileChosen(suffix)
    \/ (entry = "gui" /\ UNCHANGED vars)

\* The user picks another entry of the combo box.
SelectTarget ==
    /\ FrontFrame
    /\ entry = "gui"
    /\ \E i \in 1..Len(combo.items) :
          /\ i # combo.index
          /\ combo' = [combo EXCEPT !.index = i]
    /\ UNCHANGED <<entry, latex_available, packages, cli, input_file, convert_btn,
                   progress, status, action_buttons, workers, shown_error>>

\* start_conversion, the slot of the Convert button (a disabled button
\* emits no click).
StartConversion ==
    /\ FrontFrame
    /\ entry = "gui"
    /\ convert_btn
    /\ Len(workers) < MaxWorkers
    /\ LET mode == get_conversion_mode(input_file, combo)
           error == IF mode = "none" THEN "Invalid conversion"
                    ELSE GuiRequirementError(mode, latex_available, packages)
       IN  IF error # "none"
           THEN /\ shown_error' = error
                /\ UNCHANGED <<convert_btn, action_buttons, progress, status, workers>>
           ELSE /\ convert_btn' = FALSE
                /\ action_buttons' = FALSE
                /\ progress' = TRUE
                /\ status' = "converting"
                /\ workers' = Append(workers, [mode |-> mode, state |-> "running",
                                               success |-> FALSE])
                /\ UNCHANGED shown_error
    /\ UNCHANGED <<entry, latex_available, packages, cli, input_file, combo>>

\* ConversionWorker.run in its thread: the conversion, then finished.emit,
\* which queues the signal for the window's thread.
WorkerRun ==
    /\ FrontFrame
    /\ entry = "gui"
    /\ \E i \in 1..Len(workers), success \in BOOLEAN :
          /\ workers[i].state = "running"
          /\ workers' = [workers EXCEPT ![i].state = "emitted", ![i].success = success]
    /\ UNCHANGED <<entry, latex_available, packages, cli, input_file, combo, convert_btn,
                   progress, status, action_buttons, shown_error>>

RemoveAt(seq, i) == SubSeq(seq, 1, i - 1) \o SubSeq(seq, i + 1, Len(seq))

\* on_conversion_finished, run by the window's thread for a queued signal.
OnConversionFinished ==
    /\ FrontFrame
    /\ entry = "gui"
    /\ \E i \in 1..Len(workers) :
          /\ workers[i].state = "emitted"
          /\ status' = IF workers[i].success THEN "ok" ELSE "failed"
          /\ action_buttons' = workers[i].success
          /\ workers' = RemoveAt(workers, i)
    /\ progress' = FALSE
    /\ convert_btn' = TRUE
    /\ UNCHANGED <<entry, latex_available, packages, cli, input_file, combo, shown_error>>

FrontInit ==
    /\ entry \in {"cli", "gui"}
    /\ latex_available \in BOOLEAN
    /\ packages \in SUBSET Libraries
    /\ cli = NoCliRun
    /\ input_file = "none"
    /\ combo = [items |-> <<"PDF", "DOCX">>, index |-> 1]
    /\ convert_btn = FALSE
    /\ progress = FALSE
    /\ status = ""
    /\ action_buttons = FALSE
    /\ workers = <<>>
    /\ shown_error = "none"

FrontIdle ==
    /\ entry = "gui"
    /\ latex_available = FALSE
    /\ packages = {}
    /\ cli = NoCliRun
    /\ input_file = "none"
    /\ combo = [items |-> <<"PDF", "DOCX">>, index |-> 1]
    /\ convert_btn = FALSE
    /\ progress = FALSE
    /\ status = ""
    /\ action_buttons = FALSE
    /\ workers = <<>>
    /\ shown_error = "none"

FrontNext ==
    \/ MainFileNotFound
    \/ RunSingleConversion
    \/ OnFileDropped
    \/ OnBrowse
    \/ SelectTarget
    \/ StartConversion
    \/ WorkerRun
    \/ OnConversionFinished

-----------------------------------------------------------------------------
(* Properties of the command line and the window.                          *)

\* The tools a mode needs are there.
ToolsAvailable(mode) ==
    /\ (mode \in {"tex2pdf", "tex2docx"}) => latex_available
    /\ (mode \in {"tex2docx", "pdf2docx"}) => "pdf2docx" \in packages
    /\ (mode = "docx2pdf") => "docx2pdf" \in packages

\* C4: at most one worker that has not emitted its finished signal exists.
C4_OneConversionInFlight ==
    Cardinality({i \in 1..Len(workers) : workers[i].state = "running"}) <= 1

\* C6: a command-line request whose mode lacks a tool prints an error and
\* reaches no pipeline function; a click on Convert whose mode lacks a tool
\* shows an error and starts no worker; every worker started has its tools.
C6_ValidationFirst ==
    [][ /\ (cli' # cli /\ ~ToolsAvailable(cli'.mode))
           => (cli'.error # "none" /\ cli'.called = "none")
        /\ (Len(workers') > Len(workers))
           => ToolsAvailable(workers'[Len(workers')].mode)
        /\ (StartConversion /\ ~ToolsAvailable(get_conversion_mode(input_file, combo)))
           => (shown_error' # "none" /\ workers' = workers) ]_vars

\* C25: the command line invokes no conversion function for an input path
\* that does not exist or whose extension is not the one of the selected
\* mode, in interactive mode and in direct mode alike.
C25_CliInputValidated ==
    cli.called # "none"
    => /\ cli.input.kind # "missing"
       /\ cli.input.suffix = ExpectedExt(cli.mode)

C6_Witness ==
    /\ "pdf2docx" \notin packages
    /\ entry = "gui"
    /\ input_file = ".pdf"
    /\ shown_error = "pdf2docx package is not available."
    /\ workers = <<>>

-----------------------------------------------------------------------------
(* Specifications.                                                         *)

\* make_docx_native called up to MaxCalls times on one converted document.
RewriterStart ==
    RewriterInit /\ PipelineIdle /\ FrontIdle /\ TablesIdle /\ LinksIdle /\ BookmarkIdle

SpecRewriter == RewriterStart /\ [][RewriterNext]_vars

\* One call of a pipeline function on an output directory.
PipelineStart ==
    PipelineInit /\ RewriterIdle /\ FrontIdle /\ TablesIdle /\ LinksIdle /\ BookmarkIdle

SpecPipeline == PipelineStart /\ [][PipelineNext]_vars

\* One process, the command line or the window, with the tools found at
\* start-up.
FrontStart ==
    FrontInit /\ RewriterIdle /\ PipelineIdle /\ TablesIdle /\ LinksIdle /\ BookmarkIdle

SpecFront == FrontStart /\ [][FrontNext]_vars

\* One table of a converted document through one call of make_docx_native.
TablesStart ==
    TablesInit /\ RewriterIdle /\ PipelineIdle /\ FrontIdle /\ LinksIdle /\ BookmarkIdle

SpecTables == TablesStart /\ [][TablesNext]_vars

\* The runs of one document through the passes of make_docx_native.
LinksStart ==
    LinksInit /\ RewriterIdle /\ PipelineIdle /\ FrontIdle /\ TablesIdle /\ BookmarkIdle

SpecLinks == LinksStart /\ [][LinksNext]_vars

\* The calls of _add_bookmark_to_paragraph of one call of make_docx_native.
BookmarkStart ==
    BookmarkInit /\ RewriterIdle /\ PipelineIdle /\ FrontIdle /\ TablesIdle /\ LinksIdle

SpecBookmarks == BookmarkStart /\ [][BookmarkNext]_vars

====
